---------------------------- MODULE Spec2Model ----------------------------
(***************************************************************************)
(* Session-end hooks of the canvas-plugin-assistant: BaseLogger.run with   *)
(* its two concrete loggers (CostsLogger, UserInputsLogger), the           *)
(* GitCommitPlugin hook and the SessionEndOrchestrator that runs the three *)
(* in a fixed order.  Every hook invocation is a separate OS process; the  *)
(* shared state is the .cpa-workflow-artifacts directory on disk.          *)
(*                                                                         *)
(* Files are modelled by their observable content:                         *)
(*   [st |-> "absent"]             no such file                            *)
(*   [st |-> "partial"]            opened with 'w' (truncated) and not yet *)
(*                                 completely written: json.load raises    *)
(*   [st |-> "json", data |-> d]   a complete JSON document d              *)
(* Python dicts are functions whose DOMAIN is the set of keys present, so  *)
(* d.get(k, default) is Get(d, k, default).  None for a date is 0 (dates   *)
(* are clock readings >= 1 and both None and "" are falsy in the code).    *)
(***************************************************************************)
EXTENDS Integers, Sequences, FiniteSets, TLC

\* At most MaxInvocations hook runs are started in a behaviour.
MaxInvocations == 4

Procs == {1, 2}
SessionIds == {"s1", "s2"}
ExitReasons == {"logout"}
Loggers == {"costs", "inputs"}
\* the hooks list with the commit first
HookOrderGitFirst == <<"git", "costs", "inputs">>

HookOrder == <<"costs", "inputs", "git">>

Absent == [st |-> "absent"]
Partial == [st |-> "partial"]
Json(d) == [st |-> "json", data |-> d]

Get(d, k, default) == IF k \in DOMAIN d THEN d[k] ELSE default

\* Python's dict union a | b: keys of b win.
DictUnion(a, b) ==
  [k \in (DOMAIN a) \cup (DOMAIN b) |-> IF k \in DOMAIN b THEN b[k] ELSE a[k]]

RECURSIVE SumSeq(_)
SumSeq(s) == IF s = <<>> THEN 0 ELSE Head(s) + SumSeq(Tail(s))

RECURSIVE SelectIdx(_, _, _)
\* indices i of 1..n (ascending) for which Test[i]
SelectIdx(test, i, n) ==
  IF i > n THEN <<>>
  ELSE (IF test[i] THEN <<i>> ELSE <<>>) \o SelectIdx(test, i + 1, n)

(***************************************************************************)
(* State.                                                                  *)
(***************************************************************************)
VARIABLES
  call,             \* a function of the scripts called on its own: arguments, result
  invocations,      \* number of hook processes started so far
  clock,            \* wall clock; every datetime.now() reads a later value
  dir_exists,       \* [Loggers -> BOOLEAN]: the session directory exists
  session_files,    \* [Loggers -> [SessionIds -> file]]: {dir}/{session_id}.json
  aggregated_file,  \* [Loggers -> file]: costs_/user_inputs_aggregation.json
  pc,               \* [Procs -> position in the code]
  frame,            \* [Procs -> the call being executed and its hook_info]
  loc,              \* [Procs -> local variables of run and aggregation]
  outcome,          \* [Procs -> how the last call ended]
  orch,             \* [Procs -> SessionEndOrchestrator loop state]
  git               \* the plugin repository, as GitCommitPlugin sees it

vars == <<call, invocations, clock, dir_exists, session_files, aggregated_file,
          pc, frame, loc, outcome, orch, git>>

(***************************************************************************)
(* Transcripts: newline-delimited JSON.  A line is blank, malformed        *)
(* ("bad"), a JSON value that is no object ("scalar") or a JSON object     *)
(* ("json", with the message dict in msg).                                 *)
(***************************************************************************)
Usage(i, o, cr, cw) ==
  [input_tokens |-> i, output_tokens |-> o,
   cache_read_input_tokens |-> cr, cache_creation_input_tokens |-> cw]

\* a usage value that is no JSON object (null, a number)
ScalarUsage == [scalar |-> TRUE]

\* A timestamp string: "...Z" (with or without fraction; the wall time in
\* milliseconds), one with a UTC offset other than +00:00 (wall time and
\* offset), or text that is no timestamp.
Stamp(ms) == [fmt |-> "Z", t |-> ms]
StampOffset(ms, off) == [fmt |-> "offset", t |-> ms, off |-> off]
StampText == [fmt |-> "text"]

SonnetDated == <<"claude-sonnet-4-5", "-20250929">>

TranscriptA ==
  << [kind |-> "json",
      msg |-> [type |-> "user", timestamp |-> Stamp(36000000),
               message |-> [content |-> [str |-> <<"hello">>]]]],
     [kind |-> "blank"],
     [kind |-> "json",
      msg |-> [type |-> "assistant", timestamp |-> Stamp(36330000),
               message |-> [model |-> SonnetDated,
                            usage |-> Usage(100, 50, 10, 5)]]],
     [kind |-> "bad"],
     [kind |-> "json",
      msg |-> [type |-> "assistant", usage |-> Usage(200, 0, 0, 0)]] >>

TranscriptB ==
  << [kind |-> "json",
      msg |-> [type |-> "user",
               message |-> [content |->
                 [str |-> <<"<command-name>", " ", "/test-command", " ",
                           "</command-name>">>]]]],
     [kind |-> "json",
      msg |-> [type |-> "user",
               message |-> [content |-> [list |->
                 << [type |-> "tool_result",
                     content |-> [str |-> <<"User has answered your questions:", " ",
                                            "\"", "q1", "\"", "=", "\"", "a1", "\"",
                                            ". You can now continue with the user's answers in mind.">>]] >>]]]] >>

\* The transcript file found at a path; "tMissing" cannot be opened, "tCall"
\* is the transcript of the call under study.
TranscriptPaths == {"tA", "tB", "tMissing"}
TranscriptReadable(path) ==
  IF path = "tCall" THEN call.readable ELSE path # "tMissing"
TranscriptLines(path) ==
  CASE path = "tA" -> TranscriptA
    [] path = "tB" -> TranscriptB
    [] path = "tCall" -> call.lines
    [] OTHER -> <<>>

\* json.loads succeeds on the line (objects and scalars alike)
ParsedLines(lines) ==
  LET ok == [i \in 1..Len(lines) |-> lines[i].kind \in {"json", "scalar"}]
      idx == SelectIdx(ok, 1, Len(lines))
  IN [j \in 1..Len(idx) |-> lines[idx[j]]]

IsDict(line) == line.kind = "json"

(***************************************************************************)
(* CostsLogger: pricing, model detection, cost, extraction.                *)
(* Prices are in 1e-8 USD per token (USD per million tokens times 100),    *)
(* costs in micro-USD, timestamps in milliseconds.                         *)
(***************************************************************************)
\* model_costs.json as the repository ships it, in the file's key order
ModelCosts ==
  << [id |-> <<"claude-sonnet-4-5">>,
      input |-> 300, output |-> 1500, cache_write |-> 375, cache_read |-> 30] >>

\* load_pricing: the table of the file found next to the scripts
load_pricing == IF "pricing" \in DOMAIN call THEN call.pricing ELSE ModelCosts

startswith(s, prefix) ==
  Len(prefix) <= Len(s) /\ SubSeq(s, 1, Len(prefix)) = prefix

\* round(x / unit) to the nearest integer, ties to even (Python's round)
RoundHalfEven(x, unit) ==
  LET q == x \div unit
      r == x % unit
  IN IF 2 * r < unit THEN q
     ELSE IF 2 * r > unit THEN q + 1
     ELSE IF q % 2 = 0 THEN q ELSE q + 1

HasModel(line) ==
  /\ IsDict(line)
  /\ \/ "model" \in DOMAIN line.msg
     \/ "message" \in DOMAIN line.msg /\ "model" \in DOMAIN line.msg.message
     \/ "metadata" \in DOMAIN line.msg /\ "model" \in DOMAIN line.msg.metadata

ModelOf(line) ==
  LET m == line.msg
  IN IF "model" \in DOMAIN m THEN m.model
     ELSE IF "message" \in DOMAIN m /\ "model" \in DOMAIN m.message
          THEN m.message.model
     ELSE m.metadata.model

\* None is <<>>
detect_model_from_transcript(messages) ==
  LET idx == SelectIdx([i \in 1..Len(messages) |-> HasModel(messages[i])],
                       1, Len(messages))
  IN IF idx = <<>> THEN <<>> ELSE ModelOf(messages[idx[1]])

\* the entry of the table with that id, <<>> when there is none
EntryWithId(pl, id) ==
  LET found == SelectIdx([i \in 1..Len(pl) |-> pl[i].id = id], 1, Len(pl))
  IN IF found = <<>> THEN <<>> ELSE <<pl[found[1]]>>

\* the pricing entry calculate_cost uses, <<>> when it returns None
PricingEntry(model) ==
  LET pl == load_pricing
      hit == SelectIdx([i \in 1..Len(pl) |-> startswith(model, pl[i].id)],
                       1, Len(pl))
      normalized_model == IF hit = <<>> THEN model ELSE pl[hit[1]].id
  IN EntryWithId(pl, normalized_model)

\* lines 119-127 (micro-USD, rounded to 6 decimals of a dollar)
CostWith(token_counts, pricing) ==
  RoundHalfEven(Get(token_counts, "input", 0) * pricing.input
                + Get(token_counts, "output", 0) * pricing.output
                + Get(token_counts, "cache_write", 0) * pricing.cache_write
                + Get(token_counts, "cache_read", 0) * pricing.cache_read, 100)

\* -1 is None
calculate_cost(token_counts, model) ==
  LET e == PricingEntry(model)
  IN IF e = <<>> THEN -1 ELSE CostWith(token_counts, e[1])

IsUsageDict(u) == "scalar" \notin DOMAIN u

HasUsage(line) ==
  /\ IsDict(line)
  /\ \/ "usage" \in DOMAIN line.msg
     \/ "message" \in DOMAIN line.msg /\ "usage" \in DOMAIN line.msg.message

UsageOfMessageFirst(line) ==
  IF "message" \in DOMAIN line.msg /\ "usage" \in DOMAIN line.msg.message
  THEN line.msg.message.usage
  ELSE line.msg.usage

\* lines 236-241: the top-level usage, else the one of the message field
UsageOf(line) ==
  IF "usage" \in DOMAIN line.msg THEN line.msg.usage ELSE line.msg.message.usage

\* the usage values collected by the loop of lines 232-245, in message order
TokenUsage(messages) ==
  LET idx == SelectIdx([i \in 1..Len(messages) |-> HasUsage(messages[i])],
                       1, Len(messages))
  IN [j \in 1..Len(idx) |-> UsageOf(messages[idx[j]])]

\* lines 244-245: usage.get on a usage of the message field that has no get
UsageGetRaises(messages) ==
  \E i \in 1..Len(messages) :
    /\ IsDict(messages[i])
    /\ "usage" \notin DOMAIN messages[i].msg
    /\ "message" \in DOMAIN messages[i].msg
    /\ "usage" \in DOMAIN messages[i].msg.message
    /\ ~IsUsageDict(messages[i].msg.message.usage)

\* lines 251-254: sum(u.get(k, 0) for u in token_usage if isinstance(u, dict))
SumField(us, k) ==
  SumSeq([j \in 1..Len(us) |-> IF IsUsageDict(us[j]) THEN Get(us[j], k, 0) ELSE 0])

\* parse_timestamp: <<>> is None; a "...Z" string gives a naive datetime of
\* that wall time, a string with an offset an aware one of that instant
parse_timestamp(ts) ==
  CASE ts.fmt = "Z" -> << [t |-> ts.t, aware |-> FALSE] >>
    [] ts.fmt = "offset" -> << [t |-> ts.t - ts.off, aware |-> TRUE] >>
    [] OTHER -> <<>>

\* the parsed timestamps of lines 204-209, in message order
Timestamps(messages) ==
  LET has == [i \in 1..Len(messages) |->
                /\ IsDict(messages[i])
                /\ "timestamp" \in DOMAIN messages[i].msg
                /\ parse_timestamp(messages[i].msg.timestamp) # <<>>]
      idx == SelectIdx(has, 1, Len(messages))
  IN [j \in 1..Len(idx) |-> parse_timestamp(messages[idx[j]].msg.timestamp)[1]]

\* line 212: a naive datetime cannot be subtracted from an aware one
SubtractRaises(timestamps) ==
  /\ Len(timestamps) >= 2
  /\ timestamps[Len(timestamps)].aware # timestamps[1].aware

\* int(x) of a duration given in milliseconds: whole seconds, towards zero
IntSeconds(ms) == IF ms >= 0 THEN ms \div 1000 ELSE -((-ms) \div 1000)

\* lines 215-222: the fields of the formatted string
DurationFormatted(ms) ==
  LET hours == IntSeconds(ms) \div 3600
      remainder == IntSeconds(ms) % 3600
      minutes == remainder \div 60
      seconds == remainder % 60
  IN IF hours > 0 THEN [h |-> hours, m |-> minutes, s |-> seconds]
     ELSE IF minutes > 0 THEN [m |-> minutes, s |-> seconds]
     ELSE [s |-> seconds]

Opt(cond, d) == IF cond THEN d ELSE <<>>

TotalTokensInputOnly(total_input, total_output) ==
  [input |-> total_input, output |-> total_output, total |-> total_input]

\* lines 257-261
TotalTokens(total_input, total_output) ==
  [input |-> total_input, output |-> total_output,
   total |-> total_input + total_output]

\* CostsLogger.extraction on a transcript, lines 184-288
CostsExtract(readable, lines) ==
  LET messages == ParsedLines(lines)
      model == detect_model_from_transcript(messages)
      timestamps == Timestamps(messages)
      duration == timestamps[Len(timestamps)].t - timestamps[1].t
      token_usage == TokenUsage(messages)
      total_input == SumField(token_usage, "input_tokens")
      total_output == SumField(token_usage, "output_tokens")
      cache_read_total == SumField(token_usage, "cache_read_input_tokens")
      cache_write_total == SumField(token_usage, "cache_creation_input_tokens")
      cost_usd == calculate_cost([input |-> total_input, output |-> total_output,
                                  cache_read |-> cache_read_total,
                                  cache_write |-> cache_write_total], model)
      d1 == [message_count |-> Len(messages)]
      d2 == Opt(model # <<>>, [model |-> model])
      d3 == Opt(Len(timestamps) >= 2,
                [duration_seconds |-> RoundHalfEven(duration, 10),
                 duration_formatted |-> DurationFormatted(duration)])
      d4 == Opt(token_usage # <<>>, [token_usage_details |-> token_usage])
      d5 == Opt(token_usage # <<>> /\ (total_input # 0 \/ total_output # 0),
                [total_tokens |-> TotalTokens(total_input, total_output)])
      d6 == Opt(token_usage # <<>> /\ (cache_read_total # 0 \/ cache_write_total # 0),
                [cache_usage |-> [cache_read |-> cache_read_total,
                                  cache_write |-> cache_write_total]])
      d7 == Opt(token_usage # <<>> /\ model # <<>>,
                IF cost_usd # -1
                THEN [cost_usd |-> cost_usd,
                      cost_formatted |-> RoundHalfEven(cost_usd, 100)]
                ELSE [cost_calculation_note |-> model])
  IN [cost_data |->
        IF ~readable
        THEN [transcript_parse_error |-> "open"]
        ELSE IF SubtractRaises(timestamps)
        THEN DictUnion(d1, DictUnion(d2, [transcript_parse_error |-> "TypeError"]))
        ELSE IF UsageGetRaises(messages)
        THEN DictUnion(d1, DictUnion(d2, DictUnion(d3,
               [transcript_parse_error |-> "AttributeError"])))
        ELSE DictUnion(d1, DictUnion(d2, DictUnion(d3, DictUnion(d4,
               DictUnion(d5, DictUnion(d6, d7))))))]

\* CostsLogger.extraction(hook_info)
CostsExtraction(path) == CostsExtract(TranscriptReadable(path), TranscriptLines(path))

(***************************************************************************)
(* UserInputsLogger.extraction.  A string is a sequence of tokens: tags    *)
(* (the only tokens that begin with "<"), blanks " ", quotes, "=" and      *)
(* words.                                                                  *)
(***************************************************************************)
IsTag(tok) == tok \in {"<command-name>", "</command-name>", "<tag>"}

RECURSIVE RunLen(_, _, _)
\* length of the longest run of tokens outside stop that starts at s[i]
RunLen(s, i, stop) ==
  IF i > Len(s) \/ s[i] \in stop THEN 0 ELSE 1 + RunLen(s, i + 1, stop)

NoStrip(s) == s

RECURSIVE strip(_)
strip(s) ==
  IF s # <<>> /\ Head(s) = " " THEN strip(Tail(s))
  ELSE IF s # <<>> /\ s[Len(s)] = " " THEN strip(SubSeq(s, 1, Len(s) - 1))
  ELSE s

\* re.search(r"<command-name>([^<]+)</command-name>", content): group(1), or <<>>
CommandMatch(content) ==
  LET tags == {"<command-name>", "</command-name>", "<tag>"}
      ok == [i \in 1..Len(content) |->
               /\ content[i] = "<command-name>"
               /\ RunLen(content, i + 1, tags) >= 1
               /\ i + 1 + RunLen(content, i + 1, tags) <= Len(content)
               /\ content[i + 1 + RunLen(content, i + 1, tags)] = "</command-name>"]
      hit == SelectIdx(ok, 1, Len(content))
  IN IF hit = <<>> THEN <<>>
     ELSE SubSeq(content, hit[1] + 1, hit[1] + RunLen(content, hit[1] + 1, tags))

RECURSIVE RemoveAll(_, _)
\* str.replace(pat, ""), pat a token sequence
RemoveAll(s, pat) ==
  IF Len(s) < Len(pat) THEN s
  ELSE IF SubSeq(s, 1, Len(pat)) = pat
       THEN RemoveAll(SubSeq(s, Len(pat) + 1, Len(s)), pat)
       ELSE <<Head(s)>> \o RemoveAll(Tail(s), pat)

RECURSIVE FindPairs(_, _)
\* re.findall(r'"([^"]+)"="([^"]+)"', s) scanning from position i
FindPairs(s, i) ==
  IF i > Len(s) THEN <<>>
  ELSE
    LET q == {"\""}
        n1 == RunLen(s, i + 1, q)
        j == i + 1 + n1              \* closing quote of the question
        n2 == RunLen(s, j + 3, q)
        k == j + 3 + n2              \* closing quote of the answer
        m == /\ s[i] = "\"" /\ n1 >= 1 /\ j + 2 <= Len(s)
             /\ s[j] = "\"" /\ s[j + 1] = "=" /\ s[j + 2] = "\""
             /\ n2 >= 1 /\ k <= Len(s) /\ s[k] = "\""
    IN IF m
       THEN << [input |-> SubSeq(s, j + 3, k - 1), type |-> "question_answer",
                question |-> SubSeq(s, i + 1, j - 1)] >> \o FindPairs(s, k + 1)
       ELSE FindPairs(s, i + 1)

AnsweredPrefix == "User has answered your questions:"
ContinueSuffix == ". You can now continue with the user's answers in mind."

\* lines 99-125: the records of one tool_result item list
RECURSIVE ItemRecords(_)
ItemRecords(items) ==
  IF items = <<>> THEN <<>>
  ELSE
    LET item == Head(items)
        result_content == Get(item, "content", [str |-> <<>>])
        text == result_content.str
        answers_part == RemoveAll(RemoveAll(text, <<AnsweredPrefix, " ">>),
                                  <<ContinueSuffix>>)
    IN (IF /\ Get(item, "type", "") = "tool_result"
           /\ "str" \in DOMAIN result_content
           /\ text # <<>> /\ text[1] = AnsweredPrefix
        THEN FindPairs(answers_part, 1) ELSE <<>>) \o ItemRecords(Tail(items))

\* the records one transcript line contributes, lines 63-125
LineRecords(line) ==
  IF ~IsDict(line) THEN <<>>
  ELSE
    LET entry == line.msg
        content == Get(Get(entry, "message", <<>>), "content", <<>>)
    IN IF Get(entry, "type", "") # "user" \/ Get(entry, "isMeta", FALSE) THEN <<>>
       ELSE IF "str" \in DOMAIN content
       THEN IF content.str = <<>> THEN <<>>
            ELSE IF CommandMatch(content.str) # <<>>
            THEN << [input |-> strip(CommandMatch(content.str)),
                     type |-> "slash_command"] >>
            ELSE IF ~IsTag(content.str[1])
            THEN << [input |-> content.str, type |-> "free_text"] >>
            ELSE <<>>
       ELSE IF "list" \in DOMAIN content THEN ItemRecords(content.list)
       ELSE <<>>

RECURSIVE AllRecords(_)
AllRecords(lines) ==
  IF lines = <<>> THEN <<>> ELSE LineRecords(Head(lines)) \o AllRecords(Tail(lines))

\* UserInputsLogger.extraction raises: the transcript cannot be opened
\* (line 62), or a line holds a JSON value without .get (line 74)
UserInputsExtractionRaises(path) ==
  \/ ~TranscriptReadable(path)
  \/ \E i \in 1..Len(TranscriptLines(path)) : TranscriptLines(path)[i].kind = "scalar"

\* UserInputsLogger.extraction, lines 61-126
UserInputsExtraction(path) ==
  [user_inputs |-> AllRecords(ParsedLines(TranscriptLines(path)))]

NoDuration == [none |-> TRUE]

LocInit ==
  [timestamp |-> 0, record |-> <<>>, existing_created_date |-> 0,
   todo |-> <<>>, sessions |-> <<>>,
   total_tokens_sum |-> [input |-> 0, output |-> 0, total |-> 0],
   cache_usage_sum |-> [cache_write |-> 0, cache_read |-> 0],
   cost_usd_sum |-> 0, inputs |-> <<>>, summary |-> <<>>,
   cwd |-> "cwd", original_cwd |-> "cwd", cmds |-> <<>>, raised |-> "none",
   code |-> 0]

NoFrame == [op |-> "none", cls |-> "none", session_id |-> "", exit_reason |-> "",
            transcript_path |-> ""]

OrchInit == [idx |-> 0, called |-> <<>>, results |-> <<>>, exit |-> "none",
             hook_info |-> NoFrame]

\* plugin_dir, artifacts_dir: workspace_dir and its .cpa-workflow-artifacts
\* exist; report: a wrap-up-report-*.md is there; dirty: the work tree differs
\* from the index; staged: the index differs from HEAD; unpushed: HEAD is
\* ahead of the remote
GitInit == [plugin_dir |-> TRUE, artifacts_dir |-> FALSE, report |-> FALSE,
            dirty |-> FALSE, staged |-> FALSE, unpushed |-> FALSE]

\* no function call under way
NoCall == [fn |-> "none"]

Init ==
  /\ call = NoCall
  /\ invocations = 0
  /\ clock = 0
  /\ dir_exists = [c \in Loggers |-> FALSE]
  /\ session_files = [c \in Loggers |-> [s \in SessionIds |-> Absent]]
  /\ aggregated_file = [c \in Loggers |-> Absent]
  /\ pc = [p \in Procs |-> "idle"]
  /\ frame = [p \in Procs |-> NoFrame]
  /\ loc = [p \in Procs |-> LocInit]
  /\ outcome = [p \in Procs |-> "none"]
  /\ orch = [p \in Procs |-> OrchInit]
  /\ git = GitInit

(***************************************************************************)
(* BaseLogger.run                                                          *)
(***************************************************************************)
extraction(c, path) ==
  IF c = "costs" THEN CostsExtraction(path) ELSE UserInputsExtraction(path)

ExtractionRaisesOnRead(c, path) ==
  \/ ~TranscriptReadable(path)
  \/ c = "inputs" /\ UserInputsExtractionRaises(path)

ExtractionRaises(c, path) == c = "inputs" /\ UserInputsExtractionRaises(path)

\* the dict handed to json.dump, base_logger.py lines 82-88
SessionRecord(f, now) ==
  DictUnion([session_id |-> f.session_id, timestamp |-> now,
             exit_reason |-> f.exit_reason, working_directory |-> "cwd",
             transcript_path |-> f.transcript_path],
            extraction(f.cls, f.transcript_path))

\* open(path, 'r+'): the old content stays until it is written over
OpenKeeps(old) == old

\* open(path, 'w') on a file that held old: truncated to length 0
OpenTruncate(old) == Partial

\* json.dump that leaves the file incomplete without raising
DumpNothing(cur, d) == {Partial}

\* json.dump(d, f) and close, on a file opened with 'w' whose content is now
\* cur.  cur is the empty file unless another process completed a write of
\* the same path after this one's open: the bytes are then laid over that
\* content from offset 0 and a longer old document leaves its tail behind.
DumpOutcomes(cur, d) ==
  IF cur.st = "json" THEN {Json(d), Partial} ELSE {Json(d)}

\* where control goes when a hook's run ends: back to the orchestrator's
\* loop, or the process is over
AfterHook(p) == IF orch[p].idx > 0 THEN "orch_next" ELSE "idle"

\* the call of process p ends with result r
Finish(p, r) ==
  /\ pc' = [pc EXCEPT ![p] = AfterHook(p)]
  /\ outcome' = [outcome EXCEPT ![p] = r]
  /\ loc' = [loc EXCEPT ![p] = LocInit]
  /\ frame' = [frame EXCEPT ![p] = NoFrame]

\* mkdir(parents=True) creates the artifacts directory on the way
MadeDirs(g) == [g EXCEPT !.plugin_dir = TRUE, !.artifacts_dir = TRUE]

\* a file below the plugin directory was created or changed
Wrote(g) == [g EXCEPT !.dirty = TRUE]

\* a hook script started on its own: <Logger>.run(hook_information()).
\* The two loggers share no file, and a behaviour keeps to one of them.
Invoke(p, c, s, r, tp) ==
  /\ pc[p] = "idle"
  /\ invocations < MaxInvocations
  /\ invocations' = invocations + 1
  /\ \A c2 \in Loggers \ {c} : ~dir_exists[c2]
  /\ pc' = [pc EXCEPT ![p] = "mkdir"]
  /\ frame' = [frame EXCEPT ![p] = [op |-> "run", cls |-> c, session_id |-> s,
                                    exit_reason |-> r, transcript_path |-> tp]]
  /\ outcome' = [outcome EXCEPT ![p] = "running"]
  /\ orch' = [orch EXCEPT ![p] = OrchInit]
  /\ UNCHANGED <<call, clock, dir_exists, session_files, aggregated_file, loc, git>>

\* line 76: session_directory.mkdir(parents=True, exist_ok=True)
Mkdir(p) ==
  /\ pc[p] = "mkdir"
  /\ dir_exists' = [dir_exists EXCEPT ![frame[p].cls] = TRUE]
  /\ git' = MadeDirs(git)
  /\ pc' = [pc EXCEPT ![p] = "open"]
  /\ UNCHANGED <<call, invocations, clock, session_files, aggregated_file, frame, loc, outcome, orch>>

\* line 76 raises (outside the try): the exception leaves run
MkdirFails(p) ==
  /\ pc[p] = "mkdir"
  /\ ~dir_exists[frame[p].cls]
  /\ Finish(p, "raised")
  /\ UNCHANGED <<call, invocations, clock, dir_exists, session_files, aggregated_file, orch, git>>

\* line 81: open(output_file, 'w') truncates the file
Open(p) ==
  /\ pc[p] = "open"
  /\ session_files' = [session_files EXCEPT ![frame[p].cls][frame[p].session_id] =
                                             OpenTruncate(@)]
  /\ git' = Wrote(git)
  /\ pc' = [pc EXCEPT ![p] = "dump"]
  /\ UNCHANGED <<call, invocations, clock, dir_exists, aggregated_file, frame, loc, outcome, orch>>

\* the first statement of aggregation: CostsLogger looks at the existing
\* aggregation file, UserInputsLogger lists the directory
AggFirst(c) == IF c = "costs" THEN "agg_exists" ELSE "agg_glob"

\* the error of open ignored: run goes on to aggregation
OpenFailsThenAggregates(p) ==
  /\ pc[p] = "open"
  /\ pc' = [pc EXCEPT ![p] = AggFirst(frame[p].cls)]
  /\ UNCHANGED <<call, invocations, clock, dir_exists, session_files, aggregated_file, frame,
                 loc, outcome, orch, git>>

\* line 81 raises: caught at line 95, exit 1
OpenFails(p) ==
  /\ pc[p] = "open"
  /\ Finish(p, "exit1")
  /\ UNCHANGED <<call, invocations, clock, dir_exists, session_files, aggregated_file, orch, git>>

\* lines 82-92: the record is built (timestamp, then extraction), dumped, the
\* file closed and aggregation entered; an exception of extraction is caught
\* at line 95 with the file already truncated
Dump(p) ==
  /\ pc[p] = "dump"
  /\ clock' = clock + 1
  /\ LET f == frame[p]
         cur == session_files[f.cls][f.session_id]
     IN IF ExtractionRaises(f.cls, f.transcript_path)
        THEN /\ Finish(p, "exit1")
             /\ UNCHANGED <<session_files, git>>
        ELSE \E w \in DumpOutcomes(cur, SessionRecord(f, clock + 1)) :
               /\ session_files' = [session_files EXCEPT ![f.cls][f.session_id] = w]
               /\ loc' = [loc EXCEPT ![p].timestamp = clock + 1,
                                     ![p].record = SessionRecord(f, clock + 1)]
               /\ pc' = [pc EXCEPT ![p] = AggFirst(f.cls)]
               /\ git' = Wrote(git)
               /\ UNCHANGED <<outcome, frame>>
  /\ UNCHANGED <<call, invocations, dir_exists, aggregated_file, orch>>

\* a write of json.dump or the close raises (disk full, I/O error): caught at
\* line 95, exit 1, the file left incomplete
DumpFails(p) ==
  /\ pc[p] = "dump"
  /\ clock' = clock + 1
  /\ ~ExtractionRaises(frame[p].cls, frame[p].transcript_path)
  /\ Finish(p, "exit1")
  /\ UNCHANGED <<call, invocations, dir_exists, session_files, aggregated_file, orch, git>>

(***************************************************************************)
(* aggregation(session_directory), of CostsLogger and of UserInputsLogger  *)
(***************************************************************************)
\* aggregation called on its own on an existing session directory
CallAggregation(p, c) ==
  /\ pc[p] = "idle"
  /\ invocations < MaxInvocations
  /\ invocations' = invocations + 1
  /\ dir_exists[c]
  /\ pc' = [pc EXCEPT ![p] = AggFirst(c)]
  /\ frame' = [frame EXCEPT ![p] = [NoFrame EXCEPT !.op = "aggregation", !.cls = c]]
  /\ outcome' = [outcome EXCEPT ![p] = "running"]
  /\ orch' = [orch EXCEPT ![p] = OrchInit]
  /\ UNCHANGED <<call, clock, dir_exists, session_files, aggregated_file, loc, git>>

\* how the call ends once aggregation has returned normally: run goes on to
\* sys.exit(0) at line 94
AggDoneResult(f) == IF f.op = "run" THEN "exit0" ELSE "returned"

\* how the call ends when a statement of aggregation raises.  CostsLogger
\* catches it (lines 378-380) and returns; UserInputsLogger has no handler,
\* so the exception reaches run's except (line 95) or the direct caller
AggFailResult(f) ==
  IF f.cls = "costs" THEN AggDoneResult(f)
  ELSE IF f.op = "run" THEN "exit1" ELSE "raised"

\* last_update of the existing file taken for its created_date
CreatedDateOfLastUpdate(file) ==
  IF file.st = "json" THEN Get(file.data, "last_update", 0) ELSE 0

\* cost_logger.py lines 311-319: created_date of a readable existing file
ExistingCreatedDate(file) ==
  IF file.st = "json" THEN Get(file.data, "created_date", 0) ELSE 0

\* an aggregation kept as a log: the running token sums start from the totals
\* of the existing file
AggReadExistingCarries(p) ==
  /\ pc[p] = "agg_exists"
  /\ LET old == aggregated_file["costs"]
     IN loc' = [loc EXCEPT
                  ![p].existing_created_date = ExistingCreatedDate(old),
                  ![p].total_tokens_sum =
                      IF old.st = "json" THEN Get(old.data, "total_tokens", @) ELSE @]
  /\ pc' = [pc EXCEPT ![p] = "agg_glob"]
  /\ UNCHANGED <<call, invocations, clock, dir_exists, session_files, aggregated_file, frame,
                 outcome, orch, git>>

AggReadExisting(p) ==
  /\ pc[p] = "agg_exists"
  /\ loc' = [loc EXCEPT ![p].existing_created_date =
                          ExistingCreatedDate(aggregated_file["costs"])]
  /\ pc' = [pc EXCEPT ![p] = "agg_glob"]
  /\ UNCHANGED <<call, invocations, clock, dir_exists, session_files, aggregated_file, frame,
                 outcome, orch, git>>

\* session_directory.glob("*.json"): the files present when the scan starts,
\* in the order the directory listing yields them (any order); the
\* aggregation file lies in the parent directory and is never listed
Glob(c) ==
  LET present == {s \in SessionIds : session_files[c][s].st # "absent"}
      n == Cardinality(present)
  IN {order \in [1..n -> present] :
        \A i, j \in 1..n : i # j => order[i] # order[j]}

AggGlob(p) ==
  /\ pc[p] = "agg_glob"
  /\ \E order \in Glob(frame[p].cls) : loc' = [loc EXCEPT ![p].todo = order]
  /\ pc' = [pc EXCEPT ![p] = "agg_scan"]
  /\ UNCHANGED <<call, invocations, clock, dir_exists, session_files, aggregated_file, frame,
                 outcome, orch, git>>

\* lines 332-352: one session file's data added to the running sums
CostsAccumulate(l, data) ==
  LET cost_data == Get(data, "cost_data", <<>>)
      total_tokens == Get(cost_data, "total_tokens", <<>>)
      cache == Get(cost_data, "cache_usage", <<>>)
  IN [l EXCEPT
        !.sessions = Append(@, [session_id |-> Get(data, "session_id", ""),
                                date |-> Get(data, "timestamp", 0),
                                duration |-> Get(cost_data, "duration_formatted",
                                                 NoDuration),
                                cost_usd |-> Get(cost_data, "cost_usd", 0)]),
        !.total_tokens_sum =
            [input |-> @.input + Get(total_tokens, "input", 0),
             output |-> @.output + Get(total_tokens, "output", 0),
             total |-> @.total + Get(total_tokens, "total", 0)],
        !.cache_usage_sum =
            [cache_write |-> @.cache_write + Get(cache, "cache_write", 0),
             cache_read |-> @.cache_read + Get(cache, "cache_read", 0)],
        !.cost_usd_sum = @ + Get(cost_data, "cost_usd", 0)]

\* user_input_logger.py line 148
\* inputs.extend in place of inputs.append
InputsAccumulateFlat(l, data) ==
  [l EXCEPT !.inputs = @ \o Get(data, "user_inputs", <<>>)]

InputsAccumulate(l, data) ==
  [l EXCEPT !.inputs = Append(@, Get(data, "user_inputs", <<>>))]

Accumulate(c, l, data) ==
  IF c = "costs" THEN CostsAccumulate(l, data) ELSE InputsAccumulate(l, data)

\* the loop body: open the next listed file and json.load it; a file that is
\* not a complete JSON document raises JSONDecodeError
AggScan(p) ==
  /\ pc[p] = "agg_scan"
  /\ loc[p].todo # <<>>
  /\ LET f == frame[p]
         file == session_files[f.cls][Head(loc[p].todo)]
     IN IF file.st = "json"
        THEN /\ loc' = [loc EXCEPT ![p] =
                          [Accumulate(f.cls, loc[p], file.data) EXCEPT !.todo = Tail(@)]]
             /\ UNCHANGED <<pc, outcome, frame>>
        ELSE Finish(p, AggFailResult(f))
  /\ UNCHANGED <<call, invocations, clock, dir_exists, session_files, aggregated_file, orch, git>>

RECURSIVE InsertNullsLast(_, _)
\* a missing date taken for the latest one
InsertNullsLast(sorted, x) ==
  IF sorted = <<>> THEN <<x>>
  ELSE IF Head(sorted).date # 0 /\ (x.date = 0 \/ Head(sorted).date <= x.date)
       THEN <<Head(sorted)>> \o InsertNullsLast(Tail(sorted), x)
  ELSE <<x>> \o sorted

RECURSIVE Insert(_, _)
\* x put behind every element whose key is not greater (stable)
Insert(sorted, x) ==
  IF sorted = <<>> THEN <<x>>
  ELSE IF Head(sorted).date <= x.date THEN <<Head(sorted)>> \o Insert(Tail(sorted), x)
  ELSE <<x>> \o sorted

\* the sessions left in the order the directory listing gave
ListingOrder(sessions) == sessions

RECURSIVE SortByDate(_)
\* line 355: sessions.sort(key=date or ''), '' being 0 here
SortByDate(sessions) ==
  IF sessions = <<>> THEN <<>>
  ELSE Insert(SortByDate(SubSeq(sessions, 1, Len(sessions) - 1)),
              sessions[Len(sessions)])

\* lines 358-373: the dict CostsLogger dumps
CostsSummary(l, now) ==
  [created_date |-> IF l.existing_created_date # 0
                    THEN l.existing_created_date ELSE now,
   last_update |-> now,
   session_count |-> Len(l.sessions),
   total_tokens |-> l.total_tokens_sum,
   cache_usage |-> l.cache_usage_sum,
   cost_usd |-> RoundHalfEven(l.cost_usd_sum, 100),
   cost_formatted |-> RoundHalfEven(l.cost_usd_sum, 100),
   sessions |-> SortByDate(l.sessions)]

\* user_input_logger.py line 151
InputsSummary(l) == [inputs |-> l.inputs]

\* the loop is over: CostsLogger sorts, reads the clock and builds the
\* summary (lines 355-361); UserInputsLogger's dict is the one of line 151
AggSummary(p) ==
  /\ pc[p] = "agg_scan"
  /\ loc[p].todo = <<>>
  /\ IF frame[p].cls = "costs"
     THEN /\ clock' = clock + 1
          /\ loc' = [loc EXCEPT ![p].summary = CostsSummary(loc[p], clock + 1)]
     ELSE /\ loc' = [loc EXCEPT ![p].summary = InputsSummary(loc[p])]
          /\ UNCHANGED clock
  /\ pc' = [pc EXCEPT ![p] = "agg_open"]
  /\ UNCHANGED <<call, invocations, dir_exists, session_files, aggregated_file, frame, outcome,
                 orch, git>>

\* the aggregation file is opened with 'w' (cost_logger.py line 363,
\* user_input_logger.py line 150)
AggOpen(p) ==
  /\ pc[p] = "agg_open"
  /\ aggregated_file' = [aggregated_file EXCEPT ![frame[p].cls] = OpenTruncate(@)]
  /\ git' = Wrote(git)
  /\ pc' = [pc EXCEPT ![p] = "agg_dump"]
  /\ UNCHANGED <<call, invocations, clock, dir_exists, session_files, frame, loc, outcome, orch>>

\* the open raises
AggOpenFails(p) ==
  /\ pc[p] = "agg_open"
  /\ Finish(p, AggFailResult(frame[p]))
  /\ UNCHANGED <<call, invocations, clock, dir_exists, session_files, aggregated_file, orch, git>>

\* json.dump of the summary and close; aggregation returns
AggDump(p) ==
  /\ pc[p] = "agg_dump"
  /\ \E w \in DumpOutcomes(aggregated_file[frame[p].cls], loc[p].summary) :
       aggregated_file' = [aggregated_file EXCEPT ![frame[p].cls] = w]
  /\ Finish(p, AggDoneResult(frame[p]))
  /\ git' = Wrote(git)
  /\ UNCHANGED <<call, invocations, clock, dir_exists, session_files, orch>>

\* a write of the summary raises: the aggregation file is left incomplete
AggDumpFails(p) ==
  /\ pc[p] = "agg_dump"
  /\ Finish(p, AggFailResult(frame[p]))
  /\ UNCHANGED <<call, invocations, clock, dir_exists, session_files, aggregated_file, orch, git>>

(***************************************************************************)
(* GitCommitPlugin.run                                                     *)
(***************************************************************************)
\* the directory a process is in: the plugin's directory or another one
Directories == {"cwd", "plugin"}

\* a helper's first statements (lines 102-104, 135-137, 162-164):
\* original_cwd = Path.cwd(); os.chdir(plugin_dir)
EnterHelper(l) == [l EXCEPT !.original_cwd = l.cwd, !.cwd = "plugin"]

LeaveHelperStays(l) == l

\* a helper's finally clause (lines 118-119, 147-148, 205-206):
\* os.chdir(original_cwd)
LeaveHelper(l) == [l EXCEPT !.cwd = l.original_cwd]

\* subprocess.run(["git", cmd, ...]) has been called
Issued(l, cmd) == [l EXCEPT !.cmds = Append(@, cmd)]

\* sys.exit(code) inside run: SystemExit is on its way to the caller
GitExitWith(p, l, code) ==
  /\ loc' = [loc EXCEPT ![p] = [l EXCEPT !.code = code]]
  /\ pc' = [pc EXCEPT ![p] = "git_exit"]

GitCaughtExitsZero(p, l, exc) == GitExitWith(p, [l EXCEPT !.raised = exc], 0)

\* an exception reaches the handlers of lines 81-86: sys.exit(1)
GitCaught(p, l, exc) == GitExitWith(p, [l EXCEPT !.raised = exc], 1)

GitCheckPluginDirOnly(p) ==
  /\ pc[p] = "git_check"
  /\ IF git.plugin_dir
     THEN /\ pc' = [pc EXCEPT ![p] = "git_stage"]
          /\ UNCHANGED loc
     ELSE GitExitWith(p, loc[p], 0)
  /\ UNCHANGED <<call, invocations, clock, dir_exists, session_files, aggregated_file, frame, outcome, orch, git>>

\* lines 45-59: the three existence checks
GitCheck(p) ==
  /\ pc[p] = "git_check"
  /\ IF git.plugin_dir /\ git.artifacts_dir /\ git.report
     THEN /\ pc' = [pc EXCEPT ![p] = "git_stage"]
          /\ UNCHANGED loc
     ELSE GitExitWith(p, loc[p], 0)
  /\ UNCHANGED <<call, invocations, clock, dir_exists, session_files, aggregated_file, frame, outcome, orch, git>>

\* git add -A . : the index takes the work tree's changes
GitAddAll(g) == [g EXCEPT !.staged = g.staged \/ g.dirty, !.dirty = FALSE]

\* line 67: _stage_files is entered
GitStage(p) ==
  /\ pc[p] = "git_stage"
  /\ loc' = [loc EXCEPT ![p] = EnterHelper(@)]
  /\ pc' = [pc EXCEPT ![p] = "git_stage_run"]
  /\ UNCHANGED <<call, invocations, clock, dir_exists, session_files, aggregated_file, frame, outcome, orch, git>>

\* lines 140-148: git add -A . succeeds, _stage_files returns
GitStageRun(p) ==
  /\ pc[p] = "git_stage_run"
  /\ git' = GitAddAll(git)
  /\ loc' = [loc EXCEPT ![p] = LeaveHelper(Issued(@, "add"))]
  /\ pc' = [pc EXCEPT ![p] = "git_status"]
  /\ UNCHANGED <<call, invocations, clock, dir_exists, session_files, aggregated_file, frame, outcome, orch>>

\* git status --porcelain . prints something
HasChanges(g) == g.staged \/ g.dirty

\* line 70: _has_changes is entered
GitStatus(p) ==
  /\ pc[p] = "git_status"
  /\ loc' = [loc EXCEPT ![p] = EnterHelper(@)]
  /\ pc' = [pc EXCEPT ![p] = "git_status_run"]
  /\ UNCHANGED <<call, invocations, clock, dir_exists, session_files, aggregated_file, frame, outcome, orch, git>>

\* lines 108-119 and 70-72: git status succeeds, _has_changes returns
GitStatusRun(p) ==
  /\ pc[p] = "git_status_run"
  /\ LET l == LeaveHelper(Issued(loc[p], "status"))
     IN IF HasChanges(git)
        THEN /\ loc' = [loc EXCEPT ![p] = l]
             /\ pc' = [pc EXCEPT ![p] = "git_add"]
        ELSE GitExitWith(p, l, 0)
  /\ UNCHANGED <<call, invocations, clock, dir_exists, session_files, aggregated_file, frame, outcome, orch, git>>

\* line 77: _commit_and_push is entered
GitAdd(p) ==
  /\ pc[p] = "git_add"
  /\ loc' = [loc EXCEPT ![p] = EnterHelper(@)]
  /\ pc' = [pc EXCEPT ![p] = "git_add_run"]
  /\ UNCHANGED <<call, invocations, clock, dir_exists, session_files, aggregated_file, frame, outcome, orch, git>>

\* lines 170-175: git add -A . succeeds
GitAddRun(p) ==
  /\ pc[p] = "git_add_run"
  /\ git' = GitAddAll(git)
  /\ loc' = [loc EXCEPT ![p] = Issued(@, "add")]
  /\ pc' = [pc EXCEPT ![p] = "git_diff"]
  /\ UNCHANGED <<call, invocations, clock, dir_exists, session_files, aggregated_file, frame, outcome, orch>>

\* lines 178-183, 202-206, 79: git diff --cached --quiet (its return code is
\* looked at, it never raises); without staged changes the helper returns
GitDiff(p) ==
  /\ pc[p] = "git_diff"
  /\ IF git.staged
     THEN /\ loc' = [loc EXCEPT ![p] = Issued(@, "diff")]
          /\ pc' = [pc EXCEPT ![p] = "git_commit"]
     ELSE GitExitWith(p, LeaveHelper(Issued(loc[p], "diff")), 0)
  /\ UNCHANGED <<call, invocations, clock, dir_exists, session_files, aggregated_file, frame, outcome, orch, git>>

\* lines 185-191: git commit succeeds
GitCommit(p) ==
  /\ pc[p] = "git_commit"
  /\ git' = [git EXCEPT !.staged = FALSE, !.unpushed = TRUE]
  /\ loc' = [loc EXCEPT ![p] = Issued(@, "commit")]
  /\ pc' = [pc EXCEPT ![p] = "git_push"]
  /\ UNCHANGED <<call, invocations, clock, dir_exists, session_files, aggregated_file, frame, outcome, orch>>

\* lines 194-206, then line 79: git push succeeds, the helper returns
GitPush(p) ==
  /\ pc[p] = "git_push"
  /\ git' = [git EXCEPT !.unpushed = FALSE]
  /\ GitExitWith(p, LeaveHelper(Issued(loc[p], "push")), 0)
  /\ UNCHANGED <<call, invocations, clock, dir_exists, session_files, aggregated_file, frame, outcome, orch>>

\* the git command run with check=True at a position of the code
CommandAt(at) ==
  CASE at = "git_stage_run" -> "add"
    [] at = "git_status_run" -> "status"
    [] at = "git_add_run" -> "add"
    [] at = "git_commit" -> "commit"
    [] at = "git_push" -> "push"

\* a git command run with check=True fails: CalledProcessError leaves the
\* helper through its finally clause and is caught at line 81
GitCommandFails(p) ==
  /\ pc[p] \in {"git_stage_run", "git_status_run", "git_add_run", "git_commit", "git_push"}
  /\ GitCaught(p, LeaveHelper(Issued(loc[p], CommandAt(pc[p]))), "CalledProcessError")
  /\ UNCHANGED <<call, invocations, clock, dir_exists, session_files, aggregated_file, frame, outcome, orch, git>>

\* another exception: exists, glob or stat of lines 48-62 raises, or
\* Path.cwd() or os.chdir(plugin_dir) at the start of a helper (the directory
\* is not changed then); caught at line 84
GitRaises(p) ==
  /\ pc[p] \in {"git_check", "git_stage", "git_status", "git_add"}
  /\ GitCaught(p, loc[p], "Exception")
  /\ UNCHANGED <<call, invocations, clock, dir_exists, session_files, aggregated_file, frame, outcome, orch, git>>

\* SystemExit leaves run
GitExit(p) ==
  /\ pc[p] = "git_exit"
  /\ Finish(p, IF loc[p].code = 0 THEN "exit0" ELSE "exit1")
  /\ UNCHANGED <<call, invocations, clock, dir_exists, session_files, aggregated_file, orch, git>>

GitStep(p) ==
  \/ GitCheck(p) \/ GitStage(p) \/ GitStageRun(p) \/ GitStatus(p) \/ GitStatusRun(p)
  \/ GitAdd(p) \/ GitAddRun(p) \/ GitDiff(p) \/ GitCommit(p) \/ GitPush(p)
  \/ GitExit(p)

\* the wrap-up command leaves its report in the artifacts directory
WrapUp ==
  /\ ~git.report
  /\ git' = [git EXCEPT !.report = TRUE, !.plugin_dir = TRUE, !.artifacts_dir = TRUE,
                        !.dirty = TRUE]
  /\ UNCHANGED <<call, invocations, clock, dir_exists, session_files, aggregated_file, pc, frame,
                 loc, outcome, orch>>

\* a file of the plugin is edited
Edit ==
  /\ git.plugin_dir
  /\ ~git.dirty
  /\ git' = [git EXCEPT !.dirty = TRUE]
  /\ UNCHANGED <<call, invocations, clock, dir_exists, session_files, aggregated_file, pc, frame,
                 loc, outcome, orch>>

(***************************************************************************)
(* SessionEndOrchestrator.run                                              *)
(***************************************************************************)
FirstPc(c) == IF c = "git" THEN "git_check" ELSE "mkdir"

\* line 48: hook_class.run(hook_info) for the hook at index i
CallHook(p, i, hook_info) ==
  /\ pc' = [pc EXCEPT ![p] = FirstPc(HookOrder[i])]
  /\ frame' = [frame EXCEPT ![p] = [hook_info EXCEPT !.op = "run",
                                                     !.cls = HookOrder[i]]]
  /\ outcome' = [outcome EXCEPT ![p] = "running"]

\* the record the loop keeps of a call: the class and the hook_info passed
Called(i, hook_info) == [hook_info EXCEPT !.op = "run", !.cls = HookOrder[i]]

\* session_end_orchestrator.py line 61 and the loop's first iteration
OrchStart(p, s, r, tp) ==
  /\ pc[p] = "idle"
  /\ invocations + Len(HookOrder) <= MaxInvocations
  /\ invocations' = invocations + Len(HookOrder)
  /\ LET hook_info == [NoFrame EXCEPT !.session_id = s, !.exit_reason = r,
                                      !.transcript_path = tp]
     IN /\ orch' = [orch EXCEPT ![p] = [idx |-> 1, called |-> <<Called(1, hook_info)>>,
                                        results |-> <<>>, exit |-> "none",
                                        hook_info |-> hook_info]]
        /\ CallHook(p, 1, hook_info)
  /\ UNCHANGED <<call, clock, dir_exists, session_files, aggregated_file, loc, git>>

\* lines 46-57: the hook's call is over (returned, SystemExit or Exception,
\* all swallowed); the next hook is called, or the loop ends and the
\* orchestrator exits 0
OrchNext(p) ==
  /\ pc[p] = "orch_next"
  /\ outcome[p] \in {"returned", "exit0", "exit1", "raised"}
  /\ IF orch[p].idx < Len(HookOrder)
     THEN /\ orch' = [orch EXCEPT ![p].idx = @ + 1,
                                  ![p].results = Append(@, outcome[p]),
                                  ![p].called = Append(@, Called(orch[p].idx + 1,
                                                                 orch[p].hook_info))]
          /\ CallHook(p, orch[p].idx + 1, orch[p].hook_info)
     ELSE /\ orch' = [orch EXCEPT ![p].idx = 0, ![p].exit = "exit0",
                                  ![p].results = Append(@, outcome[p])]
          /\ pc' = [pc EXCEPT ![p] = "idle"]
          /\ UNCHANGED <<frame, outcome>>
  /\ UNCHANGED <<call, invocations, clock, dir_exists, session_files, aggregated_file, loc, git>>

(***************************************************************************)
(* Specifications                                                          *)
(***************************************************************************)
\* one step of a logger's code in process p
LoggerStep(p) ==
  \/ Mkdir(p) \/ Open(p) \/ Dump(p)
  \/ AggReadExisting(p) \/ AggGlob(p) \/ AggScan(p) \/ AggSummary(p)
  \/ AggOpen(p) \/ AggDump(p)

\* a file-system call of a logger raises
LoggerFault(p) ==
  \/ MkdirFails(p) \/ OpenFails(p) \/ DumpFails(p)
  \/ AggOpenFails(p) \/ AggDumpFails(p)

Start(p) ==
  \/ \E c \in Loggers, s \in SessionIds, r \in ExitReasons, tp \in TranscriptPaths :
       Invoke(p, c, s, r, tp)
  \/ \E c \in Loggers : CallAggregation(p, c)

\* hook processes run one after the other; file-system calls may fail
Next == Start(1) \/ LoggerStep(1) \/ LoggerFault(1)

Spec == Init /\ [][Next]_vars

\* session ends handled by the orchestrator, one after the other
NextOrch ==
  \/ \E s \in SessionIds, r \in ExitReasons, tp \in TranscriptPaths :
       OrchStart(1, s, r, tp)
  \/ OrchNext(1)
  \/ LoggerStep(1) \/ LoggerFault(1)
  \/ GitStep(1) \/ GitCommandFails(1) \/ GitRaises(1)
  \/ WrapUp

SpecOrch == Init /\ [][NextOrch]_vars

\* git_commit_plugin.py line 210: the commit hook started on its own
GitInvoke(p, s, r, tp, dir) ==
  /\ pc[p] = "idle"
  /\ invocations < MaxInvocations
  /\ invocations' = invocations + 1
  /\ pc' = [pc EXCEPT ![p] = "git_check"]
  /\ frame' = [frame EXCEPT ![p] = [op |-> "run", cls |-> "git", session_id |-> s,
                                    exit_reason |-> r, transcript_path |-> tp]]
  /\ outcome' = [outcome EXCEPT ![p] = "running"]
  /\ orch' = [orch EXCEPT ![p] = OrchInit]
  /\ loc' = [loc EXCEPT ![p] = [LocInit EXCEPT !.cwd = dir]]
  /\ UNCHANGED <<call, clock, dir_exists, session_files, aggregated_file, git>>

\* the workspace directory may be missing when the first hook runs
InitGit ==
  /\ call = NoCall
  /\ invocations = 0
  /\ clock = 0
  /\ dir_exists = [c \in Loggers |-> FALSE]
  /\ session_files = [c \in Loggers |-> [s \in SessionIds |-> Absent]]
  /\ aggregated_file = [c \in Loggers |-> Absent]
  /\ pc = [p \in Procs |-> "idle"]
  /\ frame = [p \in Procs |-> NoFrame]
  /\ loc = [p \in Procs |-> LocInit]
  /\ outcome = [p \in Procs |-> "none"]
  /\ orch = [p \in Procs |-> OrchInit]
  /\ \E b \in BOOLEAN : git = [GitInit EXCEPT !.plugin_dir = b]

\* commit hooks run one after the other while the plugin is worked on
NextGit ==
  \/ \E s \in SessionIds, r \in ExitReasons, dir \in Directories :
       GitInvoke(1, s, r, "tA", dir)
  \/ GitStep(1) \/ GitCommandFails(1) \/ GitRaises(1)
  \/ WrapUp \/ Edit

SpecGit == InitGit /\ [][NextGit]_vars

\* the process is terminated at any point of a run (SIGKILL, power loss):
\* whatever it had truncated or not yet written stays as it is
Kill(p) ==
  /\ pc[p] # "idle"
  /\ Finish(p, "killed")
  /\ UNCHANGED <<call, invocations, clock, dir_exists, session_files, aggregated_file, orch, git>>

\* CostsLogger runs one after the other, no file-system call fails, a run may
\* be killed
NextCrash ==
  \/ \E s \in SessionIds, r \in ExitReasons, tp \in TranscriptPaths :
       Invoke(1, "costs", s, r, tp)
  \/ LoggerStep(1)
  \/ Kill(1)

SpecCrash == Init /\ [][NextCrash]_vars

\* the session each of the two concurrently ending sessions' hooks logs
SessionOf == [p \in Procs |-> IF p = 1 THEN "s1" ELSE "s2"]

\* the one logger invocation of process p, for its session, while the other
\* session's hook of the same category may be running; the transcript is one
\* extraction reads
ConcInvoke(p) ==
  \E c \in Loggers, r \in ExitReasons, tp \in TranscriptPaths :
    /\ outcome[p] = "none"
    /\ ~ExtractionRaises(c, tp)
    /\ \A q \in Procs : frame[q].cls \in {"none", c}
    /\ Invoke(p, c, SessionOf[p], r, tp)

\* two sessions' loggers interleaved step by step; no file-system call fails
NextConc == \E p \in Procs : ConcInvoke(p) \/ LoggerStep(p)

SpecConc == Init /\ [][NextConc]_vars

(***************************************************************************)
(* The functions of the loggers called on transcripts and pricing tables   *)
(* of every shape.                                                         *)
(***************************************************************************)
MaxLines == 3

\* the transcripts of at most MaxLines lines over a set of lines
Transcripts(alphabet) == UNION {[1..n -> alphabet] : n \in 0..MaxLines}

Opus4 ==
  [id |-> <<"claude-opus-4">>,
   input |-> 1500, output |-> 7500, cache_write |-> 1875, cache_read |-> 150]

Opus45 ==
  [id |-> <<"claude-opus-4", "-5">>,
   input |-> 500, output |-> 2500, cache_write |-> 625, cache_read |-> 50]

OpusDated == <<"claude-opus-4", "-5", "-20251101">>

\* model_costs.json: missing, or with the entries update_pricing.py put in it
PricingTables == {<<>>, <<Opus45>>, <<Opus4, Opus45>>, <<Opus45, Opus4>>}

ModelNames ==
  {OpusDated, <<"claude-opus-4", "-5">>, <<"claude-opus-4">>,
   <<"claude-opus-4", "-20250514">>, <<"gpt-4">>}

TokenCounts ==
  {[input |-> 100, output |-> 50, cache_write |-> 5, cache_read |-> 10],
   [input |-> 1]}

\* lines of a transcript as CostsLogger.extraction reads them
CostLines ==
  { [kind |-> "blank"], [kind |-> "bad"], [kind |-> "scalar"],
    [kind |-> "json",
     msg |-> [type |-> "user", timestamp |-> Stamp(36330500)]],
    [kind |-> "json",
     msg |-> [type |-> "assistant", timestamp |-> Stamp(36000000),
              message |-> [model |-> OpusDated, usage |-> Usage(100, 50, 10, 5)]]],
    [kind |-> "json",
     msg |-> [type |-> "assistant", timestamp |-> StampText,
              usage |-> [input_tokens |-> 200],
              message |-> [usage |-> Usage(7, 7, 7, 7)]]],
    [kind |-> "json",
     msg |-> [type |-> "assistant", timestamp |-> StampOffset(39600000, 3600000),
              model |-> <<"claude-opus-4", "-5">>]],
    [kind |-> "json",
     msg |-> [type |-> "assistant", message |-> [usage |-> ScalarUsage]]],
    [kind |-> "json",
     msg |-> [type |-> "assistant", timestamp |-> Stamp(43200000),
              usage |-> ScalarUsage, metadata |-> [model |-> <<"gpt-4">>]]] }

UserLine(content) ==
  [kind |-> "json", msg |-> [type |-> "user", message |-> [content |-> content]]]

\* lines of a transcript as UserInputsLogger.extraction reads them
InputLines ==
  { [kind |-> "bad"], [kind |-> "scalar"],
    UserLine([str |-> <<"hello">>]),
    UserLine([str |-> <<>>]),
    UserLine([str |-> <<"<tag>", "hello">>]),
    UserLine([str |-> <<"run", "<command-name>", " ", "/test-command", " ",
                        "</command-name>", "<tag>">>]),
    UserLine([list |->
      << [type |-> "text", content |-> [str |-> <<AnsweredPrefix, " ", "\"", "q0",
                                                  "\"", "=", "\"", "a0", "\"">>]],
         [type |-> "tool_result",
          content |-> [str |-> <<AnsweredPrefix, " ", "\"", "q1", "\"", "=", "\"", "a1",
                                 "\"", ",", " ", "\"", "q2", "\"", "=", "\"", "a2",
                                 "\"", ContinueSuffix>>]],
         [type |-> "tool_result",
          content |-> [str |-> <<"\"", "q3", "\"", "=", "\"", "a3", "\"">>]] >>]),
    [kind |-> "json",
     msg |-> [type |-> "user", isMeta |-> TRUE,
              message |-> [content |-> [str |-> <<"expanded">>]]]],
    [kind |-> "json",
     msg |-> [type |-> "assistant",
              message |-> [content |-> [str |-> <<"answer">>]]]] }

(***************************************************************************)
(* BaseLogger.hook_information.  A path string is the sequence of its      *)
(* components, the text between the slashes: "/tmp//t.json" is             *)
(* <<"", "tmp", "", "t.json">>.                                            *)
(***************************************************************************)
PathStrings ==
  { <<"", "tmp", "t.json">>, <<"", "tmp", "", "t.json">>,
    <<"", "home", ".", "project", "">>, <<"", "home", "project">> }

\* the last component only
PathName(str) == <<str[Len(str)]>>

\* Path(str): empty and "." components after the first are dropped
PathOf(str) ==
  LET keep == [i \in 1..Len(str) |-> i = 1 \/ str[i] \notin {"", "."}]
      idx == SelectIdx(keep, 1, Len(str))
  IN [j \in 1..Len(idx) |-> str[idx[j]]]

JsonNull == [null |-> TRUE]
JsonString(str) == [str |-> str]

\* what the hook finds on its standard input
HookInputs ==
  { [kind |-> "invalid"], [kind |-> "scalar"],
    [kind |-> "json",
     obj |-> [session_id |-> "s1", reason |-> "logout",
              transcript_path |-> JsonString(<<"", "tmp", "t.json">>)]] }
  \cup {[kind |-> "json",
         obj |-> [session_id |-> s, reason |-> r, transcript_path |-> tp, cwd |-> d]] :
          s \in SessionIds, r \in ExitReasons,
          tp \in {JsonString(str) : str \in PathStrings} \cup {JsonNull},
          d \in {JsonString(<<"", "home", "project">>),
                 JsonString(<<"", "home", ".", "project", "">>)}}

\* the environment of the hook process: the two variables ("" when unset),
\* the top level git reports (<<>> outside a repository), the current directory
Environments ==
  [CPA_PLUGIN_DIR : {<<>>, <<"", "plugin">>},
   CPA_WORKSPACE_DIR : {<<>>, <<"", "workspace">>},
   git_toplevel : {<<>>, <<"", "repo">>},
   cwd : {<<"", "home", "project">>}]

\* get_plugin_dir.py lines 13-20
PluginDirRun(env) ==
  IF env.CPA_PLUGIN_DIR # <<>> THEN PathOf(env.CPA_PLUGIN_DIR)
  ELSE IF env.CPA_WORKSPACE_DIR # <<>> THEN PathOf(env.CPA_WORKSPACE_DIR)
  ELSE env.cwd

\* get_workspace_dir(): the top level of the git repository, else the
\* current directory
get_workspace_dir(env) ==
  IF env.git_toplevel # <<>> THEN PathOf(env.git_toplevel) ELSE env.cwd

\* base_logger.py lines 44-55: json.load, the five fields built left to
\* right; only JSONDecodeError is caught
hook_information(stdin, env) ==
  IF stdin.kind = "invalid" THEN [exit |-> 1]
  ELSE IF stdin.kind # "json" THEN [raised |-> "TypeError"]
  ELSE IF {"session_id", "reason", "transcript_path"} \ DOMAIN stdin.obj # {}
       THEN [raised |-> "KeyError"]
  ELSE IF "str" \notin DOMAIN stdin.obj.transcript_path THEN [raised |-> "TypeError"]
  ELSE IF "cwd" \notin DOMAIN stdin.obj THEN [raised |-> "KeyError"]
  ELSE IF "str" \notin DOMAIN stdin.obj.cwd THEN [raised |-> "TypeError"]
  ELSE [info |-> [session_id |-> stdin.obj.session_id,
                  exit_reason |-> stdin.obj.reason,
                  transcript_path |-> PathOf(stdin.obj.transcript_path.str),
                  working_directory |-> PathOf(stdin.obj.cwd.str),
                  workspace_dir |-> get_workspace_dir(env)]]

HookCalls ==
  {[fn |-> "BaseLogger.hook_information", stdin |-> i, env |-> e] :
     i \in HookInputs, e \in Environments}

\* the calls made: a function and its arguments (the transcript file and the
\* pricing file are arguments read from disk)
ExtractionCalls ==
  {[fn |-> "CostsLogger.extraction", readable |-> TRUE, lines |-> l, pricing |-> t] :
     l \in Transcripts(CostLines), t \in PricingTables}
  \cup {[fn |-> "CostsLogger.extraction", readable |-> FALSE, lines |-> <<>>,
         pricing |-> t] : t \in PricingTables}

CostCalls ==
  {[fn |-> "CostsLogger.calculate_cost", pricing |-> t, model |-> m,
    token_counts |-> tc] : t \in PricingTables, m \in ModelNames, tc \in TokenCounts}

InputCalls ==
  {[fn |-> "UserInputsLogger.extraction", readable |-> TRUE, lines |-> l] :
     l \in Transcripts(InputLines)}
  \cup {[fn |-> "UserInputsLogger.extraction", readable |-> FALSE, lines |-> <<>>]}

InitExtract ==
  /\ call \in ExtractionCalls \cup CostCalls \cup InputCalls \cup HookCalls
  /\ invocations = 0
  /\ clock = 0
  /\ dir_exists = [c \in Loggers |-> FALSE]
  /\ session_files = [c \in Loggers |-> [s \in SessionIds |-> Absent]]
  /\ aggregated_file = [c \in Loggers |-> Absent]
  /\ pc = [p \in Procs |-> "idle"]
  /\ frame = [p \in Procs |-> NoFrame]
  /\ loc = [p \in Procs |-> LocInit]
  /\ outcome = [p \in Procs |-> "none"]
  /\ orch = [p \in Procs |-> OrchInit]
  /\ git = GitInit

Returned == "result" \in DOMAIN call

Return(result) ==
  /\ ~Returned
  /\ \A p \in Procs : outcome[p] = "none"
  /\ call' = DictUnion(call, [result |-> result])
  /\ UNCHANGED <<invocations, clock, dir_exists, session_files, aggregated_file, pc,
                 frame, loc, outcome, orch, git>>

\* CostsLogger.extraction(hook_info) is called and returns
ExtractCosts ==
  /\ call.fn = "CostsLogger.extraction"
  /\ Return(CostsExtraction("tCall"))

\* CostsLogger.calculate_cost(token_counts, model) is called and returns
CalculateCost ==
  /\ call.fn = "CostsLogger.calculate_cost"
  /\ Return(calculate_cost(call.token_counts, call.model))

\* UserInputsLogger.extraction(hook_info) is called and returns or raises
ExtractInputs ==
  /\ call.fn = "UserInputsLogger.extraction"
  /\ Return(IF UserInputsExtractionRaises("tCall")
            THEN [raised |-> TRUE]
            ELSE UserInputsExtraction("tCall"))

\* BaseLogger.hook_information() is called and returns, exits or raises
ReadHookInformation ==
  /\ call.fn = "BaseLogger.hook_information"
  /\ Return(hook_information(call.stdin, call.env))

LoggerOf(fn) == IF fn = "CostsLogger.extraction" THEN "costs" ELSE "inputs"

\* the hook of the logger runs on the transcript
RunOnCall(p, s, r) ==
  /\ call.fn \in {"CostsLogger.extraction", "UserInputsLogger.extraction"}
  /\ ~Returned
  /\ outcome[p] = "none"
  /\ Invoke(p, LoggerOf(call.fn), s, r, "tCall")

NextExtract ==
  \/ ExtractCosts \/ CalculateCost \/ ExtractInputs \/ ReadHookInformation
  \/ \E r \in ExitReasons : RunOnCall(1, "s1", r)
  \/ LoggerStep(1)

SpecExtract == InitExtract /\ [][NextExtract]_vars

(***************************************************************************)
(* aggregation called on session directories of every content              *)
(***************************************************************************)
FreeText(word) == [input |-> <<word>>, type |-> "free_text"]

\* what {session_id}.json of a category can hold: nothing, an incomplete
\* document, or a record, complete or with keys missing
SessionFileShapes(c, s) ==
  IF c = "costs"
  THEN { Absent, Partial,
         Json([session_id |-> s, timestamp |-> 1,
               cost_data |-> [message_count |-> 2,
                              total_tokens |-> TotalTokens(100, 50),
                              cost_usd |-> 1050]]),
         Json([session_id |-> s, timestamp |-> 2,
               cost_data |-> [message_count |-> 1]]),
         Json([session_id |-> s, cost_data |-> [message_count |-> 0]]) }
  ELSE { Absent, Partial,
         Json([session_id |-> s, timestamp |-> 1,
               user_inputs |-> <<FreeText("hello")>>]),
         Json([session_id |-> s, timestamp |-> 2,
               user_inputs |-> <<FreeText("one"), FreeText("two")>>]),
         Json([session_id |-> s, timestamp |-> 2]) }

SessionDirectories(c) ==
  {f \in [SessionIds -> UNION {SessionFileShapes(c, s) : s \in SessionIds}] :
     \A s \in SessionIds : f[s] \in SessionFileShapes(c, s)}

LatestTimestamp == 2

InitAgg ==
  /\ call = NoCall
  /\ invocations = 0
  /\ clock = LatestTimestamp
  /\ \E c \in Loggers :
       /\ dir_exists = [c2 \in Loggers |-> c2 = c]
       /\ \E f \in SessionDirectories(c) :
            session_files = [c2 \in Loggers |->
                               IF c2 = c THEN f ELSE [s \in SessionIds |-> Absent]]
  /\ aggregated_file = [c \in Loggers |-> Absent]
  /\ pc = [p \in Procs |-> "idle"]
  /\ frame = [p \in Procs |-> NoFrame]
  /\ loc = [p \in Procs |-> LocInit]
  /\ outcome = [p \in Procs |-> "none"]
  /\ orch = [p \in Procs |-> OrchInit]
  /\ git = GitInit

AggStep(p) ==
  \/ AggReadExisting(p) \/ AggGlob(p) \/ AggScan(p) \/ AggSummary(p)
  \/ AggOpen(p) \/ AggDump(p)

\* aggregation called again and again on the directory; no file-system call
\* fails
NextAgg ==
  \/ \E c \in Loggers : CallAggregation(1, c)
  \/ AggStep(1)

SpecAgg == InitAgg /\ [][NextAgg]_vars

(***************************************************************************)
(* Properties                                                              *)
(***************************************************************************)
\* positions inside aggregation
AggPcs == {"agg_exists", "agg_glob", "agg_scan", "agg_open", "agg_dump"}

\* process p executes <Logger>.run
InRun(p) == frame[p].op = "run" /\ frame[p].cls \in Loggers

\* the session ids with a file in a session directory
PresentIn(files) == {s \in SessionIds : files[s].st # "absent"}

RECURSIVE SumFn(_)
\* the sum of a function's values
SumFn(g) ==
  IF DOMAIN g = {} THEN 0
  ELSE LET x == CHOOSE x \in DOMAIN g : TRUE
       IN g[x] + SumFn([y \in DOMAIN g \ {x} |-> g[y]])

CostData(data) == Get(data, "cost_data", <<>>)

\* the sum over the directory's files of cost_data[grp][k], 0 where missing
SumOfFiles(files, grp, k) ==
  SumFn([s \in PresentIn(files) |-> Get(Get(CostData(files[s].data), grp, <<>>), k, 0)])

\* the line of the sessions list that belongs to one session file
SessionEntry(data) ==
  [session_id |-> Get(data, "session_id", ""),
   date |-> Get(data, "timestamp", 0),
   duration |-> Get(CostData(data), "duration_formatted", NoDuration),
   cost_usd |-> Get(CostData(data), "cost_usd", 0)]

\* d is the summary of exactly the session files in files: apart from its two
\* dates every field is determined by them
IsCostsView(d, files) ==
  /\ \A s \in PresentIn(files) : files[s].st = "json"
  /\ DOMAIN d = {"created_date", "last_update", "session_count", "total_tokens",
                 "cache_usage", "cost_usd", "cost_formatted", "sessions"}
  /\ d.session_count = Cardinality(PresentIn(files))
  /\ d.total_tokens = [input |-> SumOfFiles(files, "total_tokens", "input"),
                       output |-> SumOfFiles(files, "total_tokens", "output"),
                       total |-> SumOfFiles(files, "total_tokens", "total")]
  /\ d.cache_usage = [cache_write |-> SumOfFiles(files, "cache_usage", "cache_write"),
                      cache_read |-> SumOfFiles(files, "cache_usage", "cache_read")]
  /\ d.cost_usd = RoundHalfEven(
                    SumFn([s \in PresentIn(files) |->
                             Get(CostData(files[s].data), "cost_usd", 0)]), 100)
  /\ Len(d.sessions) = Cardinality(PresentIn(files))
  /\ {d.sessions[i] : i \in 1..Len(d.sessions)} =
       {SessionEntry(files[s].data) : s \in PresentIn(files)}
  /\ \A i, j \in 1..Len(d.sessions) : i < j => d.sessions[i].date <= d.sessions[j].date

C2_RunOrder ==
  [][\A p \in Procs :
       InRun(p) =>
         LET f == frame[p]
             l == loc[p]
         IN /\ pc[p] \in {"open", "dump"} \cup AggPcs => dir_exists[f.cls]
            /\ pc[p] \in AggPcs =>
                 /\ session_files[f.cls][f.session_id] = Json(l.record)
                 /\ l.record = DictUnion([session_id |-> f.session_id,
                                          timestamp |-> l.timestamp,
                                          exit_reason |-> f.exit_reason,
                                          working_directory |-> "cwd",
                                          transcript_path |-> f.transcript_path],
                                         extraction(f.cls, f.transcript_path))
            /\ pc[p] \in {"agg_open", "agg_dump"} /\ f.cls = "costs" =>
                 \E i \in 1..Len(l.summary.sessions) :
                   l.summary.sessions[i] = SessionEntry(l.record)
            /\ pc[p] \in {"agg_open", "agg_dump"} /\ f.cls = "inputs" =>
                 \E i \in 1..Len(l.summary.inputs) :
                   l.summary.inputs[i] = l.record.user_inputs
            /\ outcome'[p] = "exit0" => pc[p] \in AggPcs]_vars

\* a run has exited 0 with its session among the two of the written summary
C2_Witness ==
  /\ outcome[1] = "exit0"
  /\ aggregated_file["costs"].st = "json"
  /\ aggregated_file["costs"].data.session_count = 2
  /\ \A s \in SessionIds : session_files["costs"][s].st = "json"

\* the step of process p is a failed open of the session file, or a failed
\* write of the record (the file does not hold a record afterwards)
WriteFailed(p) ==
  \/ pc[p] = "open" /\ pc'[p] # "dump"
  \/ pc[p] = "dump" /\ session_files'[frame[p].cls][frame[p].session_id].st # "json"

\* C3: when the open or the write of the session file fails, the run ends at
\* once with exit code 1: no further attempt, no aggregation, the aggregation
\* file untouched.
C3_WriteFailureExitsOne ==
  [][\A p \in Procs :
       InRun(p) /\ WriteFailed(p) =>
         /\ outcome'[p] = "exit1"
         /\ pc'[p] = "idle"
         /\ aggregated_file' = aggregated_file]_vars

\* a CostsLogger run has exited 1 and left a truncated session file
C3_Witness ==
  /\ outcome[1] = "exit1"
  /\ dir_exists["costs"]
  /\ \E s \in SessionIds : session_files["costs"][s] = Partial

\* C4: for both loggers, a run whose record is written and whose aggregation
\* then fails still exits 0 and leaves the record on disk as written.
C4_AggregationFailureIsWarning ==
  [][\A p \in Procs :
       InRun(p) /\ pc[p] \in AggPcs /\ outcome'[p] # "running" =>
         /\ outcome'[p] = "exit0"
         /\ session_files'[frame[p].cls][frame[p].session_id] = Json(loc[p].record)]_vars

\* C5: a logger run touches no session file but {session_id}.json of its own
\* session id; its write replaces whatever the file held by the run's record
\* alone, and the file still holds exactly that record when the run exits 0.
C5_LastWriteWins ==
  [][\A p \in Procs :
       InRun(p) =>
         LET f == frame[p]
         IN /\ \A c \in Loggers, s \in SessionIds :
                 session_files'[c][s] # session_files[c][s] =>
                   /\ c = f.cls /\ s = f.session_id
                   /\ pc[p] \in {"open", "dump"}
            /\ pc[p] = "dump" /\ pc'[p] \in AggPcs =>
                 /\ session_files'[f.cls][f.session_id] = Json(loc'[p].record)
                 /\ loc'[p].record.session_id = f.session_id
                 /\ loc'[p].record.timestamp = clock'
            /\ outcome'[p] = "exit0" =>
                 session_files'[f.cls][f.session_id] = Json(loc[p].record)]_vars

\* session s1 was logged twice by CostsLogger, both runs exiting 0: the file
\* holds the second run's record and there is no second file
C5_Witness ==
  /\ outcome[1] = "exit0"
  /\ session_files["costs"]["s2"] = Absent
  /\ session_files["costs"]["s1"].st = "json"
  /\ session_files["costs"]["s1"].data.timestamp = 3
  /\ aggregated_file["costs"].st = "json"
  /\ aggregated_file["costs"].data.created_date = 2
  /\ aggregated_file["costs"].data.last_update = 4

\* C6: the file a CostsLogger aggregation writes is the summary of exactly
\* the session files present: session_count is their number, the token and
\* cache totals and the cost are their sums, the sessions list has one line
\* per file; of the previous aggregation file only created_date can survive,
\* and the aggregation file is not among the sessions.
C6_MaterializedView ==
  [][\A p \in Procs :
       /\ pc[p] = "agg_dump"
       /\ frame[p].cls = "costs"
       /\ aggregated_file'["costs"] # aggregated_file["costs"]
       => LET d == loc[p].summary
          IN /\ aggregated_file'["costs"] = Json(d)
             /\ IsCostsView(d, session_files["costs"])
             /\ d.created_date \in {loc[p].existing_created_date, d.last_update}
             /\ d.last_update <= clock]_vars

\* a direct aggregation call has returned with a summary of two sessions
C6_Witness ==
  /\ outcome[1] = "returned"
  /\ aggregated_file["costs"].st = "json"
  /\ aggregated_file["costs"].data.session_count = 2
  /\ aggregated_file["costs"].data.total_tokens.total > 350

\* the sessions list of d has one line for each of the files, and no other
SameSessions(d, files) ==
  /\ \A s \in PresentIn(files) : files[s].st = "json"
  /\ Len(d.sessions) = Cardinality(PresentIn(files))
  /\ {d.sessions[i] : i \in 1..Len(d.sessions)} =
       {SessionEntry(files[s].data) : s \in PresentIn(files)}

\* C7: when CostsLogger.aggregation runs over the session files the existing
\* aggregation file was made from, the summary it is about to write differs
\* from the existing one in last_update only, which is later.
C7_AggregationIdempotent ==
  \A p \in Procs :
    /\ pc[p] = "agg_open"
    /\ frame[p].cls = "costs"
    /\ aggregated_file["costs"].st = "json"
    /\ SameSessions(aggregated_file["costs"].data, session_files["costs"])
    => LET old == aggregated_file["costs"].data
           new == loc[p].summary
       IN /\ new = [old EXCEPT !.last_update = new.last_update]
          /\ new.last_update > old.last_update

\* aggregation called again over the two session files of the existing summary
C7_Witness ==
  /\ pc[1] = "agg_open"
  /\ frame[1].op = "aggregation"
  /\ frame[1].cls = "costs"
  /\ aggregated_file["costs"].st = "json"
  /\ aggregated_file["costs"].data.session_count = 2
  /\ SameSessions(aggregated_file["costs"].data, session_files["costs"])

\* C8: the look at the existing aggregation file never ends the call; the
\* summary takes over created_date of an existing file that can be read, and
\* has created_date = last_update (now) when the file is missing or corrupt.
C8_CreatedDatePreserved ==
  [][\A p \in Procs :
       frame[p].cls = "costs" =>
         LET old == aggregated_file["costs"]
             new == loc[p].summary
         IN /\ pc[p] = "agg_exists" => pc'[p] = "agg_glob"
            /\ pc[p] = "agg_open" /\ old.st = "json" =>
                 new.created_date = old.data.created_date
            /\ pc[p] = "agg_open" /\ old.st # "json" =>
                 new.created_date = new.last_update]_vars

\* a third aggregation call is about to write: the existing file was itself
\* written by a call that kept an earlier created_date
C8_Witness ==
  /\ pc[1] = "agg_open"
  /\ frame[1].cls = "costs"
  /\ aggregated_file["costs"].st = "json"
  /\ aggregated_file["costs"].data.created_date < aggregated_file["costs"].data.last_update
  /\ loc[1].summary.created_date = aggregated_file["costs"].data.created_date

\* C9: with runs killed mid-write before it, every CostsLogger run that
\* exits 0 leaves costs_aggregation.json complete, counting the session files
\* present, its own session among them.
C9_CompletedRunRewritesAggregation ==
  [][\A p \in Procs :
       InRun(p) /\ frame[p].cls = "costs" /\ outcome'[p] = "exit0" =>
         /\ aggregated_file'["costs"].st = "json"
         /\ aggregated_file'["costs"].data.session_count =
              Cardinality(PresentIn(session_files'["costs"]))
         /\ \E i \in 1..Len(aggregated_file'["costs"].data.sessions) :
              aggregated_file'["costs"].data.sessions[i] = SessionEntry(loc[p].record)]_vars

\* C10: two logger invocations of one category for different session ids,
\* interleaved in any way: each ends with exit code 0 and with its session
\* file holding the complete record it would have written alone.
C10_ConcurrentRunsSafe ==
  [][\A p \in Procs :
       InRun(p) /\ outcome'[p] # "running" =>
         /\ outcome'[p] = "exit0"
         /\ session_files'[frame[p].cls][frame[p].session_id] =
              Json(SessionRecord(frame[p], loc[p].timestamp))]_vars

(***************************************************************************)
(* GitCommitPlugin                                                         *)
(***************************************************************************)
GitProcs == {p \in Procs : frame[p].cls = "git"}

IsPrefix(s, t) == Len(s) <= Len(t) /\ \A i \in 1..Len(s) : s[i] = t[i]

GitSequence == <<"add", "status", "add", "diff", "commit", "push">>

InHelper(at) ==
  at \in {"git_stage_run", "git_status_run", "git_add_run", "git_diff", "git_commit",
          "git_push"}

\* C11: a run issues git commands only when the plugin directory, the
\* artifacts directory and a wrap-up report exist, and issues them in the
\* order stage, status, add, diff, commit, push: staging comes first, the
\* commit is attempted only with changes present after staging, and the push
\* only after the commit succeeded.
C11_GitCommandOrder ==
  \A p \in GitProcs :
    /\ IsPrefix(loc[p].cmds, GitSequence)
    /\ loc[p].cmds # <<>> => git.plugin_dir /\ git.artifacts_dir /\ git.report
    /\ InHelper(pc[p]) => git.plugin_dir /\ git.artifacts_dir /\ git.report
    /\ pc[p] = "git_commit" => git.staged
    /\ pc[p] = "git_push" => git.unpushed /\ loc[p].cmds[Len(loc[p].cmds)] = "commit"
    /\ loc[p].raised = "CalledProcessError" => pc[p] = "git_exit"

C11_Witness ==
  \E p \in GitProcs :
    /\ pc[p] = "git_exit"
    /\ loc[p].cmds = GitSequence
    /\ loc[p].code = 0

\* C12: a run of the commit hook ends with exit code 1 exactly when a git
\* command failed or another exception was raised in it, and with exit code 0
\* otherwise.
C12_GitExitCode ==
  [][\A p \in Procs :
       pc[p] = "git_exit" /\ pc'[p] # "git_exit" =>
         /\ outcome'[p] \in {"exit0", "exit1"}
         /\ outcome'[p] = "exit1" <=> loc[p].raised # "none"]_vars

C12_Witness ==
  \E p \in GitProcs :
    /\ pc[p] = "git_exit"
    /\ loc[p].raised = "CalledProcessError"
    /\ loc[p].code = 1
    /\ loc[p].cmds = <<"add", "status", "add", "diff", "commit", "push">>

\* C13: each git helper records the working directory on entry and has put
\* it back when control leaves the helper, on a normal return and when a git
\* command raises; while the helper runs the process is in the plugin
\* directory.
C13_WorkingDirectoryRestored ==
  [][\A p \in Procs :
       /\ ~InHelper(pc[p]) /\ InHelper(pc'[p]) =>
            loc'[p].original_cwd = loc[p].cwd /\ loc'[p].cwd = "plugin"
       /\ InHelper(pc[p]) /\ ~InHelper(pc'[p]) =>
            loc'[p].cwd = loc[p].original_cwd
       /\ InHelper(pc[p]) /\ InHelper(pc'[p]) =>
            loc'[p].cwd = loc[p].cwd /\ loc'[p].original_cwd = loc[p].original_cwd]_vars

C13_Witness ==
  \E p \in GitProcs :
    /\ pc[p] = "git_exit"
    /\ loc[p].raised = "CalledProcessError"
    /\ loc[p].cmds = <<"add", "status", "add">>
    /\ loc[p].cwd = "cwd"
    /\ loc[p].original_cwd = "cwd"


(***************************************************************************)
(* CostsLogger.extraction, calculate_cost                                  *)
(***************************************************************************)
CostsReturned == call.fn = "CostsLogger.extraction" /\ Returned

NoParseError(cd) == "transcript_parse_error" \notin DOMAIN cd

\* the usage object a transcript line carries: the top-level usage if
\* present, otherwise message.usage; <<>> without one
UsageObject(line) ==
  IF line.kind # "json" THEN <<>>
  ELSE IF "usage" \in DOMAIN line.msg
       THEN (IF IsUsageDict(line.msg.usage) THEN line.msg.usage ELSE <<>>)
  ELSE IF "message" \in DOMAIN line.msg /\ "usage" \in DOMAIN line.msg.message
       THEN (IF IsUsageDict(line.msg.message.usage) THEN line.msg.message.usage ELSE <<>>)
  ELSE <<>>

RECURSIVE UsageSum(_, _)
\* counter k summed over the lines of a transcript, each usage object once
UsageSum(lines, k) ==
  IF lines = <<>> THEN 0
  ELSE Get(UsageObject(Head(lines)), k, 0) + UsageSum(Tail(lines), k)

\* C14: whenever extraction computes the totals of a transcript, the input,
\* output, cache_read and cache_write totals are the sums of the counters
\* over the messages that carry a usage object (the top-level one if present,
\* otherwise message.usage), each object counted once; a total of zero is
\* left out of the record.
C14_TotalsAreSums ==
  CostsReturned /\ NoParseError(call.result.cost_data) =>
    LET cd == call.result.cost_data
        tt == Get(cd, "total_tokens", [input |-> 0, output |-> 0])
        cu == Get(cd, "cache_usage", [cache_read |-> 0, cache_write |-> 0])
    IN /\ tt.input = UsageSum(call.lines, "input_tokens")
       /\ tt.output = UsageSum(call.lines, "output_tokens")
       /\ cu.cache_read = UsageSum(call.lines, "cache_read_input_tokens")
       /\ cu.cache_write = UsageSum(call.lines, "cache_creation_input_tokens")

C14_Witness ==
  /\ CostsReturned
  /\ \E i \in 1..Len(call.lines) :
       /\ call.lines[i].kind = "json"
       /\ "usage" \in DOMAIN call.lines[i].msg
       /\ "message" \in DOMAIN call.lines[i].msg
  /\ "total_tokens" \in DOMAIN call.result.cost_data
  /\ call.result.cost_data.total_tokens.input = 300
  /\ "cache_usage" \in DOMAIN call.result.cost_data
  /\ call.result.cost_data.cache_usage.cache_read = 10

\* C15: in every session record CostsLogger wrote and in the total_tokens
\* of costs_aggregation.json, total equals input plus output.
C15_TotalIsInputPlusOutput ==
  /\ \A s \in SessionIds :
       LET file == session_files["costs"][s]
       IN file.st = "json" /\ "total_tokens" \in DOMAIN file.data.cost_data =>
            LET tt == file.data.cost_data.total_tokens
            IN tt.total = tt.input + tt.output
  /\ aggregated_file["costs"].st = "json" =>
       LET tt == aggregated_file["costs"].data.total_tokens
       IN tt.total = tt.input + tt.output

C15_Witness ==
  /\ \A s \in SessionIds :
       /\ session_files["costs"][s].st = "json"
       /\ "total_tokens" \in DOMAIN session_files["costs"][s].data.cost_data
  /\ aggregated_file["costs"].st = "json"
  /\ aggregated_file["costs"].data.session_count = 2
  /\ aggregated_file["costs"].data.total_tokens.total = 700
  /\ aggregated_file["costs"].data.total_tokens.output = 100

\* the name with a trailing 8-digit date suffix removed
StripDate(model) ==
  IF model # <<>> /\ model[Len(model)] \in {"-20250929", "-20251101", "-20250514"}
  THEN SubSeq(model, 1, Len(model) - 1)
  ELSE model

\* the entry whose id is the name without its date suffix
PricingEntryByDate(model) == EntryWithId(load_pricing, StripDate(model))

\* C16: calculate_cost prices a model with the entry of the pricing table
\* whose id equals the model name without its trailing date suffix, and
\* returns no cost when the table has no such entry; extraction then records
\* cost_usd in the first case and cost_calculation_note in the second.
C16_PricedByDateStrippedName ==
  /\ call.fn = "CostsLogger.calculate_cost" /\ Returned =>
       LET e == PricingEntryByDate(call.model)
       IN call.result = IF e = <<>> THEN -1 ELSE CostWith(call.token_counts, e[1])
  /\ CostsReturned /\ "cost_usd" \in DOMAIN call.result.cost_data =>
       LET cd == call.result.cost_data
           e == PricingEntryByDate(cd.model)
           tt == Get(cd, "total_tokens", [input |-> 0, output |-> 0])
           cu == Get(cd, "cache_usage", [cache_read |-> 0, cache_write |-> 0])
       IN /\ e # <<>>
          /\ cd.cost_usd = CostWith([input |-> tt.input, output |-> tt.output,
                                     cache_read |-> cu.cache_read,
                                     cache_write |-> cu.cache_write], e[1])
  /\ CostsReturned /\ "cost_calculation_note" \in DOMAIN call.result.cost_data =>
       PricingEntryByDate(call.result.cost_data.model) = <<>>

\* C17: extraction records a duration only when at least two timestamps of
\* the transcript parse, it is the last parsed timestamp minus the first, and
\* the hours, minutes and seconds of duration_formatted add up to the whole
\* seconds of the duration, hours shown when above zero, minutes when hours
\* or minutes are above zero.
C17_DurationFromTimestamps ==
  CostsReturned =>
    LET cd == call.result.cost_data
        ts == Timestamps(ParsedLines(call.lines))
        duration == ts[Len(ts)].t - ts[1].t
        f == cd.duration_formatted
        H == Get(f, "h", 0)
        M == Get(f, "m", 0)
    IN /\ "duration_seconds" \in DOMAIN cd <=> "duration_formatted" \in DOMAIN cd
       /\ "duration_seconds" \in DOMAIN cd =>
            /\ Len(ts) >= 2
            /\ cd.duration_seconds = RoundHalfEven(duration, 10)
            /\ H * 3600 + M * 60 + f.s = IntSeconds(duration)
            /\ "h" \in DOMAIN f <=> H > 0
            /\ "m" \in DOMAIN f <=> H > 0 \/ M > 0

\* number of lines json.loads accepts
CountParsed(lines) == Cardinality({i \in 1..Len(lines) : lines[i].kind \in {"json", "scalar"}})

\* C18: CostsLogger.extraction always returns a cost_data dict: with a
\* message_count that counts the lines that parse as JSON, or, when the
\* transcript cannot be read, with transcript_parse_error; CostsLogger.run
\* writes the session record with that cost_data and exits 0.
C18_ExtractionNeverRaises ==
  /\ CostsReturned =>
       LET cd == call.result.cost_data
       IN /\ ~call.readable => "transcript_parse_error" \in DOMAIN cd
          /\ call.readable => cd.message_count = CountParsed(call.lines)
  /\ call.fn = "CostsLogger.extraction" =>
       /\ outcome[1] \in {"none", "running", "exit0"}
       /\ outcome[1] = "exit0" \/ pc[1] \in AggPcs =>
            /\ session_files["costs"]["s1"].st = "json"
            /\ session_files["costs"]["s1"].data.cost_data
                 = CostsExtraction("tCall").cost_data
            /\ ~call.readable =>
                 "transcript_parse_error"
                    \in DOMAIN session_files["costs"]["s1"].data.cost_data

C18_Witness ==
  /\ call.fn = "CostsLogger.extraction"
  /\ ~call.readable
  /\ outcome[1] = "exit0"
  /\ session_files["costs"]["s1"].st = "json"
  /\ "transcript_parse_error" \in DOMAIN session_files["costs"]["s1"].data.cost_data

(***************************************************************************)
(* UserInputsLogger.extraction                                             *)
(***************************************************************************)
\* s without its leading and trailing blanks
Trimmed(s) ==
  LET inner == {i \in 1..Len(s) : s[i] # " "}
      lo == CHOOSE i \in inner : \A j \in inner : i <= j
      hi == CHOOSE i \in inner : \A j \in inner : j <= i
  IN IF inner = {} THEN <<>> ELSE SubSeq(s, lo, hi)

\* the text between the first <command-name> and the </command-name> that
\* follows it; <<>> without such a marker
MarkerText(content) ==
  LET opens == {i \in 1..Len(content) : content[i] = "<command-name>"}
      i0 == CHOOSE i \in opens : \A j \in opens : i <= j
      closes == {j \in 1..Len(content) : j > i0 + 1 /\ content[j] = "</command-name>"}
      j0 == CHOOSE j \in closes : \A k \in closes : j <= k
  IN IF opens = {} THEN <<>>
     ELSE IF closes = {} THEN <<>>
     ELSE SubSeq(content, i0 + 1, j0 - 1)

\* the positions of a text where a "question"="answer" pair starts
PairStarts(text) ==
  {i \in 1..(Len(text) - 6) :
     /\ text[i] = "\"" /\ text[i + 1] # "\"" /\ text[i + 2] = "\""
     /\ text[i + 3] = "="
     /\ text[i + 4] = "\"" /\ text[i + 5] # "\"" /\ text[i + 6] = "\""}

RECURSIVE PairRecords(_, _)
PairRecords(text, i) ==
  IF i > Len(text) THEN <<>>
  ELSE IF i \in PairStarts(text)
       THEN << [input |-> <<text[i + 5]>>, type |-> "question_answer",
                question |-> <<text[i + 1]>>] >> \o PairRecords(text, i + 7)
       ELSE PairRecords(text, i + 1)

RECURSIVE AnswerRecords(_)
AnswerRecords(items) ==
  IF items = <<>> THEN <<>>
  ELSE (IF /\ Head(items).type = "tool_result"
           /\ Head(items).content.str # <<>>
           /\ Head(items).content.str[1] = AnsweredPrefix
        THEN PairRecords(Head(items).content.str, 1) ELSE <<>>)
       \o AnswerRecords(Tail(items))

\* the records the statement gives a transcript line; emptyIsText tells
\* whether an empty string counts as a string not starting with "<"
StatedRecords(line, emptyIsText) ==
  IF line.kind # "json" THEN <<>>
  ELSE IF line.msg.type # "user" \/ "isMeta" \in DOMAIN line.msg THEN <<>>
  ELSE LET content == line.msg.message.content
       IN IF "list" \in DOMAIN content THEN AnswerRecords(content.list)
          ELSE IF MarkerText(content.str) # <<>>
          THEN << [input |-> Trimmed(MarkerText(content.str)), type |-> "slash_command"] >>
          ELSE IF content.str = <<>>
          THEN (IF emptyIsText THEN << [input |-> <<>>, type |-> "free_text"] >> ELSE <<>>)
          ELSE IF content.str[1] \notin {"<tag>", "<command-name>", "</command-name>"}
          THEN << [input |-> content.str, type |-> "free_text"] >>
          ELSE <<>>

RECURSIVE StatedInputs(_, _)
StatedInputs(lines, emptyIsText) ==
  IF lines = <<>> THEN <<>>
  ELSE StatedRecords(Head(lines), emptyIsText) \o StatedInputs(Tail(lines), emptyIsText)

InputsReturned ==
  /\ call.fn = "UserInputsLogger.extraction"
  /\ Returned
  /\ "raised" \notin DOMAIN call.result

\* C19: the records UserInputsLogger.extraction returns are, in transcript
\* order, those of the entries of type user that are not meta: one
\* slash_command with the trimmed command for a string holding a
\* <command-name> marker, one free_text for any other non-empty string that
\* does not start with "<", nothing for an empty string or one starting with
\* "<", and one question_answer per "question"="answer" pair of each
\* tool_result item whose text begins with the answered-questions prefix.
C19_UserInputRecords ==
  InputsReturned => call.result.user_inputs = StatedInputs(call.lines, FALSE)

\* C19 as stated: every string without a marker that does not start with
\* "<", the empty one included, yields one free_text record.
C19_AsStated ==
  InputsReturned => call.result.user_inputs = StatedInputs(call.lines, TRUE)

C19_Witness ==
  /\ InputsReturned
  /\ \E i \in 1..Len(call.lines) : call.lines[i] = UserLine([str |-> <<>>])
  /\ Len(call.result.user_inputs) = 3
  /\ call.result.user_inputs[1] = [input |-> <<"/test-command">>, type |-> "slash_command"]
  /\ call.result.user_inputs[2].type = "question_answer"
  /\ call.result.user_inputs[3] = [input |-> <<"a2">>, type |-> "question_answer",
                                   question |-> <<"q2">>]

(***************************************************************************)
(* UserInputsLogger.aggregation                                            *)
(***************************************************************************)
RECURSIVE Flatten(_)
Flatten(lists) == IF lists = <<>> THEN <<>> ELSE Head(lists) \o Flatten(Tail(lists))

\* the session ids with a record, earlier file timestamp first
ByTimestamp(files) ==
  LET present == {s \in SessionIds : files[s].st = "json"}
  IN CHOOSE order \in [1..Cardinality(present) -> present] :
       \A i, j \in 1..Cardinality(present) :
         i < j => /\ order[i] # order[j]
                  /\ files[order[i]].data.timestamp <= files[order[j]].data.timestamp

\* C20: after a completed UserInputsLogger run, user_inputs_aggregation.json
\* holds {inputs: L} with L the input records of all sessions in one flat
\* list, those of the session file with the earlier timestamp first.
C20_FlattenedSortedInputs ==
  /\ dir_exists["inputs"]
  /\ pc[1] = "idle"
  /\ outcome[1] = "exit0"
  /\ aggregated_file["inputs"].st = "json"
  /\ \A s \in SessionIds : session_files["inputs"][s].st \in {"absent", "json"}
  => LET files == session_files["inputs"]
         order == ByTimestamp(files)
     IN aggregated_file["inputs"].data
          = [inputs |-> Flatten([i \in 1..Len(order) |->
                                   files[order[i]].data.user_inputs])]

\* the orders in which the files of a set of sessions can be listed
Orders(present) ==
  {order \in [1..Cardinality(present) -> present] :
     \A i, j \in 1..Cardinality(present) : i # j => order[i] # order[j]}

AggregationEnded == pc[1] = "idle" /\ outcome[1] \in {"returned", "raised"}

C22_InvalidFilesSkipped ==
  dir_exists["inputs"] /\ AggregationEnded =>
    LET files == session_files["inputs"]
    IN /\ outcome[1] = "returned"
       /\ aggregated_file["inputs"].st = "json"
       /\ \E order \in Orders({s \in SessionIds : files[s].st = "json"}) :
            aggregated_file["inputs"].data =
              [inputs |-> [i \in 1..Len(order) |->
                             Get(files[order[i]].data, "user_inputs", <<>>)]]

\* C23: the sessions list of costs_aggregation.json has one entry per
\* session file and is sorted ascending by date, entries without a date
\* first.
C23_SessionsSortedByDate ==
  dir_exists["costs"] /\ aggregated_file["costs"].st = "json" =>
    LET files == session_files["costs"]
        present == {s \in SessionIds : files[s].st # "absent"}
        sessions == aggregated_file["costs"].data.sessions
    IN /\ Len(sessions) = Cardinality(present)
       /\ \A s \in present :
            \E i \in 1..Len(sessions) :
              /\ sessions[i].session_id = s
              /\ sessions[i].date = Get(files[s].data, "timestamp", 0)
       /\ \A i, j \in 1..Len(sessions) :
            i < j => /\ sessions[i].date <= sessions[j].date
                     /\ sessions[j].date = 0 => sessions[i].date = 0

C23_Witness ==
  /\ dir_exists["costs"]
  /\ aggregated_file["costs"].st = "json"
  /\ Len(aggregated_file["costs"].data.sessions) = 2
  /\ aggregated_file["costs"].data.sessions[1].date = 0
  /\ aggregated_file["costs"].data.sessions[1].session_id = "s2"
  /\ aggregated_file["costs"].data.sessions[2].date = 1
  /\ "timestamp" \notin DOMAIN session_files["costs"]["s2"].data

(***************************************************************************)
(* BaseLogger.hook_information                                             *)
(***************************************************************************)
HookReturned == call.fn = "BaseLogger.hook_information" /\ Returned

\* the four keys are there
HasFourKeys(stdin) ==
  /\ stdin.kind = "json"
  /\ {"session_id", "reason", "transcript_path", "cwd"} \subseteq DOMAIN stdin.obj

\* a path string without empty or "." components behind the first
IsNormalised(str) == \A i \in 2..Len(str) : str[i] # "" /\ str[i] # "."

\* the two path values are strings
PathsAreStrings(obj) ==
  "str" \in DOMAIN obj.transcript_path /\ "str" \in DOMAIN obj.cwd

\* C24: for a hook input that is a JSON object with the four keys whose two
\* path values are strings, hook_information returns a HookInformation with
\* session_id and exit_reason unchanged and with transcript_path and
\* working_directory denoting the given paths, unchanged when the string has
\* no empty or "." component; for input that is no valid JSON it exits with
\* code 1 and returns nothing.
C24_HookInformationRoundTrip ==
  HookReturned =>
    /\ call.stdin.kind = "invalid" => call.result = [exit |-> 1]
    /\ HasFourKeys(call.stdin) /\ PathsAreStrings(call.stdin.obj) =>
         /\ "info" \in DOMAIN call.result
         /\ call.result.info.session_id = call.stdin.obj.session_id
         /\ call.result.info.exit_reason = call.stdin.obj.reason
         /\ IsNormalised(call.stdin.obj.transcript_path.str) =>
              call.result.info.transcript_path = call.stdin.obj.transcript_path.str
         /\ IsNormalised(call.stdin.obj.cwd.str) =>
              call.result.info.working_directory = call.stdin.obj.cwd.str

\* C24 as stated: the four values come back unchanged for every object with
\* the four keys.
C24_AsStated ==
  HookReturned =>
    /\ call.stdin.kind = "invalid" => call.result = [exit |-> 1]
    /\ HasFourKeys(call.stdin) =>
         /\ "info" \in DOMAIN call.result
         /\ call.result.info.session_id = call.stdin.obj.session_id
         /\ call.result.info.exit_reason = call.stdin.obj.reason
         /\ JsonString(call.result.info.transcript_path) = call.stdin.obj.transcript_path
         /\ JsonString(call.result.info.working_directory) = call.stdin.obj.cwd

C24_Witness ==
  /\ HookReturned
  /\ HasFourKeys(call.stdin)
  /\ call.stdin.obj.transcript_path = JsonString(<<"", "tmp", "t.json">>)
  /\ call.stdin.obj.cwd = JsonString(<<"", "home", "project">>)
  /\ call.result.info.session_id = "s2"
  /\ call.result.info.transcript_path = <<"", "tmp", "t.json">>
  /\ call.result.info.working_directory = <<"", "home", "project">>

\* C25: the workspace_dir of the HookInformation returned is what
\* PluginDir.run gives: CPA_PLUGIN_DIR when set, else CPA_WORKSPACE_DIR when
\* set, else the current directory.
C25_WorkspaceDirFromPluginDir ==
  HookReturned /\ "info" \in DOMAIN call.result =>
    call.result.info.workspace_dir = PluginDirRun(call.env)

(***************************************************************************)
(* Concurrency and failures                                                *)
(***************************************************************************)
\* C26: once two concurrent CostsLogger runs for different sessions have
\* both ended, costs_aggregation.json is a complete summary and accounts for
\* both session files: session_count is 2 and the totals are the sums over
\* both.
C26_ConcurrentAggregationComplete ==
  (dir_exists["costs"] /\ \A p \in Procs : outcome[p] \in {"exit0", "exit1"}) =>
    /\ aggregated_file["costs"].st = "json"
    /\ aggregated_file["costs"].data.session_count = 2
    /\ IsCostsView(aggregated_file["costs"].data, session_files["costs"])
    /\ SameSessions(aggregated_file["costs"].data, session_files["costs"])

\* C27: when the extraction of a logger raises during BaseLogger.run, the
\* run ends with exit code 1 and leaves no empty or partial
\* {session_id}.json: the file is as it was before the run.
C27_FailedRunLeavesRecord ==
  [][\A p \in Procs :
       /\ InRun(p)
       /\ pc[p] = "dump"
       /\ ExtractionRaises(frame[p].cls, frame[p].transcript_path)
       => /\ outcome'[p] = "exit1"
          /\ session_files'[frame[p].cls][frame[p].session_id].st # "partial"]_vars

\* C28: once a UserInputsLogger run for one session has failed and left its
\* file behind, a later UserInputsLogger run for another session whose
\* transcript is readable, with no file-system error of its own, does not
\* end with exit code 1.
C28_FailuresIsolated ==
  [][\A p \in Procs :
       /\ InRun(p)
       /\ frame[p].cls = "inputs"
       /\ ~ExtractionRaises("inputs", frame[p].transcript_path)
       /\ \E s \in SessionIds \ {frame[p].session_id} :
            session_files["inputs"][s].st = "partial"
       /\ LoggerStep(p)
       => outcome'[p] \in {"running", "exit0"}]_vars

\* C29: a commit GitCommitPlugin made is pushed by the next run whose git
\* commands all succeed: a run that ends with exit code 0 leaves no commit
\* unpushed, also when nothing was changed since the commit.
C29_CommitEventuallyPushed ==
  [][\A p \in Procs :
       /\ frame[p].cls = "git"
       /\ git.unpushed
       /\ outcome'[p] = "exit0"
       => ~git'.unpushed]_vars

\* C30: the duration_seconds CostsLogger.extraction records (in hundredths
\* of a second) is never negative, and the hours, minutes and seconds of
\* duration_formatted add up to its whole seconds.
C30_DurationNonNegative ==
  CostsReturned /\ "duration_seconds" \in DOMAIN call.result.cost_data =>
    LET cd == call.result.cost_data
        f == cd.duration_formatted
    IN /\ cd.duration_seconds >= 0
       /\ Get(f, "h", 0) * 3600 + Get(f, "m", 0) * 60 + f.s = cd.duration_seconds \div 100


====
